---- MODULE Spec2Model ----
(***************************************************************************)
(* Household key distribution of SimpleNotes (backend/app/routes/keys.py,  *)
(* households.py, invites.py, auth.py, utils/database.py).                 *)
(*                                                                         *)
(* Every HTTP request is a process held in a slot of `req`.  A handler is   *)
(* cut at its store calls: one action per store call, together with the    *)
(* local computation that follows it up to the next store call or to the   *)
(* response.  Requests run on independent Lambda instances (Mangum) against *)
(* one DynamoDB, so the store calls of different requests interleave.       *)
(***************************************************************************)
EXTENDS Integers, Sequences, FiniteSets, TLC

\* ------------------------------------------------------------------ bounds
\* number of vault writes explored in one behaviour of SpecVault
MaxVaultWrites == 3
\* number of vault writes explored in one behaviour of SpecMembers
MaxMemberVaultWrites == 2
\* number of user-key-record writes explored in one behaviour of SpecRegistry
MaxKeyWrites == 2
\* number of failing directory writes explored in one behaviour of SpecDirectory
MaxDirectoryFailures == 1
\* vault writes explored while the store's reads may fail
MaxOutageWrites == 2
\* attachment ids issued in one behaviour of SpecAttachments
MaxUploads == 2
\* failing store calls explored in one behaviour of SpecAttachments
MaxAttachmentFailures == 1
\* invites created in one behaviour of SpecInvites
MaxCreatedInvites == 2

\* ------------------------------------------------------------- value sets
Users == {"o", "a", "c"}
\* the household ids a request may name; "h1" is the household in the table
HouseholdIds == {"h1"}
\* wrapped-key blobs posted to AddMemberKey for a target: a wrapped key is a
\* ciphertext under the target's public key, so every target has its own
\* blobs; the empty string is a legal str for every target
WrappedKeyValues(target) ==
    IF target = "o" THEN {"", "wo1"}
    ELSE IF target = "a" THEN {"", "wa1"} ELSE {"", "wc1"}
PublicKeyValues == {"", "pk1", "pk2"}
PrivateKeyValues == {"e1", "e2"}
SaltValues == {"s1"}
VersionValues == {1, 2}

\* the requests that may be in flight at the same time
Slots == {"p1", "p2"}

\* HTTP status codes of the responses
OK == 200
BadRequest == 400
Forbidden == 403
NotFound == 404
ServerError == 500

VARIABLES
    households,     \* households table: household_id -> [owner_id, members]
    users,          \* users table: user_id -> [households]
    wrapped_keys,   \* household_id -> (member_id -> wrapped key), the vault
    user_keys,      \* user_id -> key record
    invites,        \* invites table: invite_id -> [household_id, email, status]
    req,            \* slot -> the request in flight in that slot
    writes_left,    \* exploration budget: vault writes still allowed
    key_writes_left, \* exploration budget: key-record writes still allowed
    failures_left,  \* exploration budget: failing directory writes still allowed
    reads_fail,     \* environment: get_item calls raise ClientError just now
    last_writer,    \* history: the slot whose request wrote the vault last
    lists,          \* lists table: list_id -> [household_id, attachments]
    s3_objects,     \* attachment ids whose object is in the attachments bucket
    issued,         \* exploration budget: attachment ids issued so far
    settings        \* environment: the deployment's settings (utils/config.py)

vars == <<households, users, wrapped_keys, user_keys, invites, req,
          writes_left, key_writes_left, failures_left, reads_fail, last_writer,
          lists, s3_objects, issued, settings>>

\* ------------------------------------------------------- python helpers
EmptyMap == [u \in {} |-> ""]

\* dict with d[k] = v set (insert or overwrite)
DictSet(d, k, v) == [x \in (DOMAIN d) \cup {k} |-> IF x = k THEN v ELSE d[x]]

\* dict after del d[k]
DictDel(d, k) == [x \in (DOMAIN d) \ {k} |-> d[x]]

\* [m for m in seq if m != x]
RECURSIVE ListWithout(_, _)
ListWithout(seq, x) ==
    IF seq = <<>> THEN <<>>
    ELSE IF Head(seq) = x THEN ListWithout(Tail(seq), x)
         ELSE <<Head(seq)>> \o ListWithout(Tail(seq), x)

\* x in seq
InList(x, seq) == \E i \in 1..Len(seq) : seq[i] = x

\* an Optional value is the empty set (None) or a singleton
None == {}
Some(v) == {v}
TheValue(opt) == CHOOSE v \in opt : TRUE

\* ---------------------------------------------------------- store access
\* table.get_item(Key={"household_id": household_id}).get("Item");
\* `except ClientError: return None`: a failing read answers like a missing item
get_household(household_id) ==
    IF ~reads_fail /\ household_id \in DOMAIN households
    THEN Some(households[household_id]) ELSE None

\* table.get_item(Key={"user_id": user_id}).get("Item");
\* `except ClientError: return None`: a failing read answers like a missing item
get_user_by_id(user_id) ==
    IF ~reads_fail /\ user_id \in DOMAIN users THEN Some(users[user_id]) ELSE None

\* the stored wrapped-key map of a household, None when there is none
get_household_wrapped_keys(household_id) ==
    IF household_id \in DOMAIN wrapped_keys
    THEN Some(wrapped_keys[household_id]) ELSE None

\* the stored map is replaced by the given one, unconditionally
update_household_wrapped_keys(household_id, keys) ==
    wrapped_keys' = [h \in (DOMAIN wrapped_keys) \cup {household_id} |->
                        IF h = household_id THEN keys ELSE wrapped_keys[h]]

\* `get_household_wrapped_keys(household_id) or {}`
OrEmptyDict(opt) ==
    IF opt = None \/ DOMAIN TheValue(opt) = {} THEN EmptyMap ELSE TheValue(opt)

\* table.get_item(Key={"invite_id": invite_id}).get("Item")
get_invite(invite_id) ==
    IF invite_id \in DOMAIN invites THEN Some(invites[invite_id]) ELSE None

\* the key record of a user, None when there is none
get_user_keys(user_id) ==
    IF user_id \in DOMAIN user_keys THEN Some(user_keys[user_id]) ELSE None

\* the key record of a user is set to key_data, unconditionally
update_user_keys(user_id, key_data) ==
    user_keys' = [u \in (DOMAIN user_keys) \cup {user_id} |->
                     IF u = user_id THEN key_data ELSE user_keys[u]]

\* --------------------------------------------------------------- requests
NoKeyData == [public_key |-> "", encrypted_private_key |-> "",
              private_key_salt |-> "", encryption_version |-> 0]

NoInvite == [household_id |-> "", email |-> "", status |-> ""]

Idle == [op |-> "idle", pc |-> "idle", household_id |-> "", caller |-> "",
         invite_id |-> "", pending |-> <<>>, ret |-> "",
         user_id |-> "", wrapped_key |-> "", keys |-> EmptyMap,
         read_keys |-> EmptyMap, members |-> <<>>, user_households |-> <<>>,
         key_data |-> NoKeyData, status |-> 0, body |-> [message |-> ""],
         concurrent_write |-> FALSE,
         list_id |-> "", attachment_id |-> 0, size |-> 0, email |-> ""]

IsIdle(p) == req[p].pc = "idle"
IsDone(p) == req[p].pc = "done"

\* the request of slot p becomes r, every other slot is untouched
SetReq(p, r) == req' = [req EXCEPT ![p] = r]

\* the request of slot p becomes r after it wrote the vault; history: every
\* other request in flight is marked as having run concurrently with a write
SetReqWrote(p, r) ==
    req' = [s \in Slots |->
              IF s = p THEN r
              ELSE IF req[s].pc \notin {"get_keys", "update"} THEN req[s]
                   ELSE [req[s] EXCEPT !.concurrent_write = TRUE]]

\* raise HTTPException(status_code=code) / return with status code
Respond(r, code, body) ==
    [r EXCEPT !.pc = "done", !.status = code, !.body = body]

\* raise HTTPException(status_code=code, detail=...)
Raise(r, code) == Respond(r, code, [detail |-> code])

\* raise HTTPException(status_code=code, detail=detail), the detail kept
RaiseDetail(r, code, detail) == Respond(r, code, [detail |-> detail])

\* `keys and keys.get("public_key")`: a record with a non-empty public key
HasPublicKey(keys) ==
    /\ keys # None
    /\ "public_key" \in DOMAIN TheValue(keys)
    /\ TheValue(keys).public_key # ""

\* requests that may still write the vault
VaultWriters ==
    {p \in Slots : req[p].op \in {"add_member_key", "remove_member_key",
                                  "set_household_keys"}
                   /\ req[p].pc \in {"get_keys", "update"}}

\* a request that may write the vault starts only while a write is left
VaultWriteLeft == Cardinality(VaultWriters) < writes_left

UnchangedTables ==
    UNCHANGED <<households, users, wrapped_keys, user_keys, invites>>
UnchangedHistory ==
    UNCHANGED <<writes_left, key_writes_left, failures_left, reads_fail, last_writer,
               lists, s3_objects, issued, settings>>

\* ------------------------------------------- GET /household/{household_id}
\* a variant that answers every caller, member or not
GetKeyGetHouseholdNoMemberCheck(p, household_id, caller) ==
    /\ IsIdle(p)
    /\ LET r == [Idle EXCEPT !.op = "get_household_key",
                             !.household_id = household_id, !.caller = caller]
           household == get_household(household_id)
       IN  SetReq(p, IF household = None THEN Raise(r, NotFound)
                     ELSE [r EXCEPT !.pc = "get_keys"])
    /\ UnchangedTables
    /\ UnchangedHistory

\* get_household_key, lines 178-184: household lookup and membership check
GetKeyGetHousehold(p, household_id, caller) ==
    /\ IsIdle(p)
    /\ LET r == [Idle EXCEPT !.op = "get_household_key",
                             !.household_id = household_id, !.caller = caller]
           household == get_household(household_id)
       IN  SetReq(p, IF household = None THEN Raise(r, NotFound)
                     ELSE IF ~InList(caller, TheValue(household).members)
                          THEN Raise(r, Forbidden)
                          ELSE [r EXCEPT !.pc = "get_keys"])
    /\ UnchangedTables
    /\ UnchangedHistory

\* mutant of GetKeyGetKeys: a caller without entry is answered with 404
GetKeyGetKeysAbsentFails(p) ==
    /\ req[p].op = "get_household_key"
    /\ req[p].pc = "get_keys"
    /\ LET r == req[p]
           keys == OrEmptyDict(get_household_wrapped_keys(r.household_id))
       IN  SetReq(p, IF r.caller \notin DOMAIN keys
                     THEN Raise([r EXCEPT !.read_keys = keys], NotFound)
                     ELSE Respond([r EXCEPT !.read_keys = keys], OK,
                            [household_id |-> r.household_id,
                             wrapped_key |-> Some(keys[r.caller]),
                             has_key |-> keys[r.caller] # ""]))
    /\ UnchangedTables
    /\ UnchangedHistory

\* get_household_key, lines 186-194: read the map, answer the caller's entry
GetKeyGetKeys(p) ==
    /\ req[p].op = "get_household_key"
    /\ req[p].pc = "get_keys"
    /\ LET r == req[p]
           keys == get_household_wrapped_keys(r.household_id)
           \* wrapped_keys.get(user_id) if wrapped_keys else None
           user_wrapped_key ==
               IF keys = None \/ DOMAIN TheValue(keys) = {} THEN None
               ELSE IF r.caller \in DOMAIN TheValue(keys)
                    THEN Some(TheValue(keys)[r.caller]) ELSE None
       IN  SetReq(p, Respond([r EXCEPT !.read_keys = OrEmptyDict(keys)], OK,
                   [household_id |-> r.household_id,
                    wrapped_key |-> user_wrapped_key,
                    \* bool(user_wrapped_key): None and "" are both false
                    has_key |-> (user_wrapped_key # None
                                 /\ TheValue(user_wrapped_key) # "")]))
    /\ UnchangedTables
    /\ UnchangedHistory

\* ------------------------------------------ POST /household/{household_id}
\* mutant of SetKeysGetHousehold: the user ids of the map are not validated
SetKeysGetHouseholdNoValidation(p, household_id, caller, data_wrapped_keys) ==
    /\ IsIdle(p)
    /\ VaultWriteLeft
    /\ LET r == [Idle EXCEPT !.op = "set_household_keys",
                             !.household_id = household_id, !.caller = caller,
                             !.keys = data_wrapped_keys]
           household == get_household(household_id)
       IN  SetReq(p, IF household = None THEN Raise(r, NotFound)
                     ELSE IF TheValue(household).owner_id # caller
                          THEN Raise(r, Forbidden)
                          ELSE [r EXCEPT !.pc = "update"])
    /\ UnchangedTables
    /\ UnchangedHistory

\* mutant of SetKeysGetHousehold: every current member may replace the map
SetKeysGetHouseholdAnyMember(p, household_id, caller, data_wrapped_keys) ==
    /\ IsIdle(p)
    /\ VaultWriteLeft
    /\ LET r == [Idle EXCEPT !.op = "set_household_keys",
                             !.household_id = household_id, !.caller = caller,
                             !.keys = data_wrapped_keys]
           household == get_household(household_id)
       IN  SetReq(p, IF household = None THEN Raise(r, NotFound)
                     ELSE IF ~InList(caller, TheValue(household).members)
                          THEN Raise(r, Forbidden)
                     ELSE IF \E uid \in DOMAIN data_wrapped_keys :
                                ~InList(uid, TheValue(household).members)
                          THEN Raise(r, BadRequest)
                          ELSE [r EXCEPT !.pc = "update"])
    /\ UnchangedTables
    /\ UnchangedHistory

\* set_household_keys, lines 208-226: lookup, owner check, member validation
SetKeysGetHousehold(p, household_id, caller, data_wrapped_keys) ==
    /\ IsIdle(p)
    /\ VaultWriteLeft
    /\ LET r == [Idle EXCEPT !.op = "set_household_keys",
                             !.household_id = household_id, !.caller = caller,
                             !.keys = data_wrapped_keys]
           household == get_household(household_id)
       IN  SetReq(p, IF household = None THEN Raise(r, NotFound)
                     ELSE IF TheValue(household).owner_id # caller
                          THEN Raise(r, Forbidden)
                     ELSE IF \E uid \in DOMAIN data_wrapped_keys :
                                ~InList(uid, TheValue(household).members)
                          THEN Raise(r, BadRequest)
                          ELSE [r EXCEPT !.pc = "update"])
    /\ UnchangedTables
    /\ UnchangedHistory

\* mutant of SetKeysUpdate: the submitted entries are merged into the stored map
SetKeysUpdateMerging(p) ==
    /\ req[p].op = "set_household_keys"
    /\ req[p].pc = "update"
    /\ LET r == req[p]
           stored == OrEmptyDict(get_household_wrapped_keys(r.household_id))
       IN  /\ update_household_wrapped_keys(r.household_id,
                  [u \in (DOMAIN stored) \cup (DOMAIN r.keys) |->
                      IF u \in DOMAIN r.keys THEN r.keys[u] ELSE stored[u]])
           /\ writes_left' = writes_left - 1
           /\ last_writer' = p
           /\ SetReqWrote(p, Respond(r, OK, [message |-> "updated"]))
    /\ UNCHANGED <<households, users, user_keys, invites, key_writes_left,
                 failures_left, reads_fail, lists, s3_objects, issued, settings>>

\* mutant of SetKeysUpdate: the caller's stored entry survives the replacement
SetKeysUpdateKeepingCaller(p) ==
    /\ req[p].op = "set_household_keys"
    /\ req[p].pc = "update"
    /\ LET r == req[p]
           stored == OrEmptyDict(get_household_wrapped_keys(r.household_id))
       IN  /\ update_household_wrapped_keys(r.household_id,
                  IF r.caller \in DOMAIN stored /\ r.caller \notin DOMAIN r.keys
                  THEN DictSet(r.keys, r.caller, stored[r.caller]) ELSE r.keys)
           /\ writes_left' = writes_left - 1
           /\ last_writer' = p
           /\ SetReqWrote(p, Respond(r, OK, [message |-> "updated"]))
    /\ UNCHANGED <<households, users, user_keys, invites, key_writes_left,
                 failures_left, reads_fail, lists, s3_objects, issued, settings>>

\* set_household_keys, lines 228-232: the submitted map replaces the stored one
SetKeysUpdate(p) ==
    /\ req[p].op = "set_household_keys"
    /\ req[p].pc = "update"
    /\ \E success \in BOOLEAN :
         LET r == req[p] IN
         IF success
         THEN /\ update_household_wrapped_keys(r.household_id, r.keys)
              /\ writes_left' = writes_left - 1
              /\ last_writer' = p
              /\ SetReqWrote(p, Respond(r, OK, [message |-> "updated"]))
         ELSE /\ UNCHANGED <<wrapped_keys, writes_left, last_writer>>
              /\ SetReq(p, Raise(r, ServerError))
    /\ UNCHANGED <<households, users, user_keys, invites, key_writes_left,
                 failures_left, reads_fail, lists, s3_objects, issued, settings>>

\* ----------------------------------- POST /household/{household_id}/member
\* mutant of AddKeyGetHousehold: the caller's membership is not checked
AddKeyGetHouseholdNoCallerCheck(p, household_id, caller, data_user_id, data_wrapped_key) ==
    /\ IsIdle(p)
    /\ VaultWriteLeft
    /\ LET r == [Idle EXCEPT !.op = "add_member_key",
                             !.household_id = household_id, !.caller = caller,
                             !.user_id = data_user_id,
                             !.wrapped_key = data_wrapped_key]
           household == get_household(household_id)
       IN  SetReq(p, IF household = None THEN Raise(r, NotFound)
                     ELSE IF ~InList(data_user_id, TheValue(household).members)
                          THEN Raise(r, BadRequest)
                          ELSE [r EXCEPT !.pc = "get_keys"])
    /\ UnchangedTables
    /\ UnchangedHistory

\* mutant of AddKeyGetHousehold: the target's membership is not checked
AddKeyGetHouseholdNoTargetCheck(p, household_id, caller, data_user_id, data_wrapped_key) ==
    /\ IsIdle(p)
    /\ VaultWriteLeft
    /\ LET r == [Idle EXCEPT !.op = "add_member_key",
                             !.household_id = household_id, !.caller = caller,
                             !.user_id = data_user_id,
                             !.wrapped_key = data_wrapped_key]
           household == get_household(household_id)
       IN  SetReq(p, IF household = None THEN Raise(r, NotFound)
                     ELSE IF ~InList(caller, TheValue(household).members)
                          THEN Raise(r, Forbidden)
                          ELSE [r EXCEPT !.pc = "get_keys"])
    /\ UnchangedTables
    /\ UnchangedHistory

\* add_member_key, lines 246-259: lookup, caller and target membership checks
AddKeyGetHousehold(p, household_id, caller, data_user_id, data_wrapped_key) ==
    /\ IsIdle(p)
    /\ VaultWriteLeft
    /\ LET r == [Idle EXCEPT !.op = "add_member_key",
                             !.household_id = household_id, !.caller = caller,
                             !.user_id = data_user_id,
                             !.wrapped_key = data_wrapped_key]
           household == get_household(household_id)
       IN  SetReq(p, IF household = None THEN Raise(r, NotFound)
                     ELSE IF ~InList(caller, TheValue(household).members)
                          THEN Raise(r, Forbidden)
                     ELSE IF ~InList(data_user_id, TheValue(household).members)
                          THEN Raise(r, BadRequest)
                          ELSE [r EXCEPT !.pc = "get_keys"])
    /\ UnchangedTables
    /\ UnchangedHistory

\* mutant of AddKeyNewMap: the map written back holds the new entry only
AddKeyNewMapTargetOnly(existing_keys, data_user_id, data_wrapped_key) ==
    [u \in {data_user_id} |-> data_wrapped_key]

\* the map add_member_key writes back: existing_keys[data.user_id] = data.wrapped_key
AddKeyNewMap(existing_keys, data_user_id, data_wrapped_key) ==
    DictSet(existing_keys, data_user_id, data_wrapped_key)

\* mutant of AddKeyGetKeys: the caller needs no entry of its own
AddKeyGetKeysNoCallerCheck(p) ==
    /\ req[p].op = "add_member_key"
    /\ req[p].pc = "get_keys"
    /\ LET r == req[p]
           existing_keys == OrEmptyDict(get_household_wrapped_keys(r.household_id))
       IN  SetReq(p, [r EXCEPT !.pc = "update",
                               !.read_keys = existing_keys,
                               !.keys = AddKeyNewMap(existing_keys,
                                            r.user_id, r.wrapped_key)])
    /\ UnchangedTables
    /\ UnchangedHistory

\* mutant of AddKeyGetKeys: the submitted key is stored under the caller's id
AddKeyGetKeysUnderCaller(p) ==
    /\ req[p].op = "add_member_key"
    /\ req[p].pc = "get_keys"
    /\ LET r == req[p]
           existing_keys == OrEmptyDict(get_household_wrapped_keys(r.household_id))
       IN  SetReq(p, IF r.caller \notin DOMAIN existing_keys
                     THEN Raise(r, Forbidden)
                     ELSE [r EXCEPT !.pc = "update",
                                    !.read_keys = existing_keys,
                                    !.keys = DictSet(existing_keys,
                                                 r.caller, r.wrapped_key)])
    /\ UnchangedTables
    /\ UnchangedHistory

\* a variant that lets the owner add a key without holding an entry
AddKeyGetKeysOwnerBootstraps(p) ==
    /\ req[p].op = "add_member_key"
    /\ req[p].pc = "get_keys"
    /\ LET r == req[p]
           existing_keys == OrEmptyDict(get_household_wrapped_keys(r.household_id))
       IN  SetReq(p, IF /\ r.caller \notin DOMAIN existing_keys
                        /\ r.caller # households[r.household_id].owner_id
                     THEN Raise(r, Forbidden)
                     ELSE [r EXCEPT !.pc = "update",
                                    !.read_keys = existing_keys,
                                    !.keys = AddKeyNewMap(existing_keys,
                                                 r.user_id, r.wrapped_key)])
    /\ UnchangedTables
    /\ UnchangedHistory

\* add_member_key, lines 261-272: read the map, caller must have an entry
AddKeyGetKeys(p) ==
    /\ req[p].op = "add_member_key"
    /\ req[p].pc = "get_keys"
    /\ LET r == req[p]
           existing_keys == OrEmptyDict(get_household_wrapped_keys(r.household_id))
       IN  SetReq(p, IF r.caller \notin DOMAIN existing_keys
                     THEN Raise(r, Forbidden)
                     ELSE [r EXCEPT !.pc = "update",
                                    !.read_keys = existing_keys,
                                    !.keys = AddKeyNewMap(existing_keys,
                                                 r.user_id, r.wrapped_key)])
    /\ UnchangedTables
    /\ UnchangedHistory

\* mutant of AddKeyUpdate: only the new entry is written, into the stored map
AddKeyUpdateMerging(p) ==
    /\ req[p].op = "add_member_key"
    /\ req[p].pc = "update"
    /\ LET r == req[p]
           stored == OrEmptyDict(get_household_wrapped_keys(r.household_id))
       IN  /\ update_household_wrapped_keys(r.household_id,
                  DictSet(stored, r.user_id, r.wrapped_key))
           /\ writes_left' = writes_left - 1
           /\ last_writer' = p
           /\ SetReqWrote(p, Respond(r, OK, [message |-> "added"]))
    /\ UNCHANGED <<households, users, user_keys, invites, key_writes_left,
                 failures_left, reads_fail, lists, s3_objects, issued, settings>>

\* add_member_key, lines 273-278: write the whole map back
AddKeyUpdate(p) ==
    /\ req[p].op = "add_member_key"
    /\ req[p].pc = "update"
    /\ \E success \in BOOLEAN :
         LET r == req[p] IN
         IF success
         THEN /\ update_household_wrapped_keys(r.household_id, r.keys)
              /\ writes_left' = writes_left - 1
              /\ last_writer' = p
              /\ SetReqWrote(p, Respond(r, OK, [message |-> "added"]))
         ELSE /\ UNCHANGED <<wrapped_keys, writes_left, last_writer>>
              /\ SetReq(p, Raise(r, ServerError))
    /\ UNCHANGED <<households, users, user_keys, invites, key_writes_left,
                 failures_left, reads_fail, lists, s3_objects, issued, settings>>

\* ----------------------- DELETE /household/{household_id}/member/{member_id}
\* mutant of RemoveKeyGetHousehold: a member may remove its own entry
RemoveKeyGetHouseholdSelfService(p, household_id, caller, member_id) ==
    /\ IsIdle(p)
    /\ VaultWriteLeft
    /\ LET r == [Idle EXCEPT !.op = "remove_member_key",
                             !.household_id = household_id, !.caller = caller,
                             !.user_id = member_id]
           household == get_household(household_id)
       IN  SetReq(p, IF household = None THEN Raise(r, NotFound)
                     ELSE IF TheValue(household).owner_id # caller
                             /\ caller # member_id
                          THEN Raise(r, Forbidden)
                          ELSE [r EXCEPT !.pc = "get_keys"])
    /\ UnchangedTables
    /\ UnchangedHistory

\* remove_member_key, lines 291-300: lookup and owner check
RemoveKeyGetHousehold(p, household_id, caller, member_id) ==
    /\ IsIdle(p)
    /\ VaultWriteLeft
    /\ LET r == [Idle EXCEPT !.op = "remove_member_key",
                             !.household_id = household_id, !.caller = caller,
                             !.user_id = member_id]
           household == get_household(household_id)
       IN  SetReq(p, IF household = None THEN Raise(r, NotFound)
                     ELSE IF TheValue(household).owner_id # caller
                          THEN Raise(r, Forbidden)
                          ELSE [r EXCEPT !.pc = "get_keys"])
    /\ UnchangedTables
    /\ UnchangedHistory

\* mutant of RemoveKeyGetKeys: removing an absent entry is answered with 404
RemoveKeyGetKeysAbsentFails(p) ==
    /\ req[p].op = "remove_member_key"
    /\ req[p].pc = "get_keys"
    /\ LET r == req[p]
           existing_keys == OrEmptyDict(get_household_wrapped_keys(r.household_id))
       IN  SetReq(p, IF r.user_id \in DOMAIN existing_keys
                     THEN [r EXCEPT !.pc = "update",
                                    !.read_keys = existing_keys,
                                    !.keys = DictDel(existing_keys, r.user_id)]
                     ELSE Raise([r EXCEPT !.read_keys = existing_keys], NotFound))
    /\ UnchangedTables
    /\ UnchangedHistory

\* mutant of RemoveKeyGetKeys: the whole map is dropped with the entry
RemoveKeyGetKeysClearing(p) ==
    /\ req[p].op = "remove_member_key"
    /\ req[p].pc = "get_keys"
    /\ LET r == req[p]
           existing_keys == OrEmptyDict(get_household_wrapped_keys(r.household_id))
       IN  SetReq(p, IF r.user_id \in DOMAIN existing_keys
                     THEN [r EXCEPT !.pc = "update",
                                    !.read_keys = existing_keys,
                                    !.keys = EmptyMap]
                     ELSE Respond([r EXCEPT !.read_keys = existing_keys],
                                  OK, [message |-> "removed"]))
    /\ UnchangedTables
    /\ UnchangedHistory

\* a variant that gives the caller an entry in the map it writes, unless the
\* caller is the member being revoked
RemoveKeyGetKeysKeepingCaller(p) ==
    /\ req[p].op = "remove_member_key"
    /\ req[p].pc = "get_keys"
    /\ LET r == req[p]
           existing_keys == OrEmptyDict(get_household_wrapped_keys(r.household_id))
           new_keys == DictDel(existing_keys, r.user_id)
       IN  SetReq(p, IF r.user_id \in DOMAIN existing_keys
                     THEN [r EXCEPT !.pc = "update",
                                    !.read_keys = existing_keys,
                                    !.keys = IF \/ r.caller \in DOMAIN new_keys
                                                \/ r.caller = r.user_id
                                             THEN new_keys
                                             ELSE DictSet(new_keys, r.caller, "")]
                     ELSE Respond([r EXCEPT !.read_keys = existing_keys],
                                  OK, [message |-> "removed"]))
    /\ UnchangedTables
    /\ UnchangedHistory

\* remove_member_key, lines 302-306 and 311: read the map, drop the entry
RemoveKeyGetKeys(p) ==
    /\ req[p].op = "remove_member_key"
    /\ req[p].pc = "get_keys"
    /\ LET r == req[p]
           existing_keys == OrEmptyDict(get_household_wrapped_keys(r.household_id))
       IN  SetReq(p, IF r.user_id \in DOMAIN existing_keys
                     THEN [r EXCEPT !.pc = "update",
                                    !.read_keys = existing_keys,
                                    !.keys = DictDel(existing_keys, r.user_id)]
                     ELSE Respond([r EXCEPT !.read_keys = existing_keys],
                                  OK, [message |-> "removed"]))
    /\ UnchangedTables
    /\ UnchangedHistory

\* a variant that also takes the member out of the household and drops
\* the member's user key record
RemoveKeyUpdateEvicting(p) ==
    /\ req[p].op = "remove_member_key"
    /\ req[p].pc = "update"
    /\ \E success \in BOOLEAN :
         LET r == req[p] IN
         IF success
         THEN /\ update_household_wrapped_keys(r.household_id, r.keys)
              /\ households' = [households EXCEPT ![r.household_id].members =
                                    ListWithout(@, r.user_id)]
              /\ user_keys' = [u \in (DOMAIN user_keys) \ {r.user_id} |-> user_keys[u]]
              /\ writes_left' = writes_left - 1
              /\ last_writer' = p
              /\ SetReqWrote(p, Respond(r, OK, [message |-> "removed"]))
         ELSE /\ UNCHANGED <<wrapped_keys, households, user_keys, writes_left,
                             last_writer>>
              /\ SetReq(p, Raise(r, ServerError))
    /\ UNCHANGED <<users, invites, key_writes_left, failures_left, reads_fail, lists, s3_objects, issued, settings>>

\* remove_member_key, lines 307-311: write the whole map back
RemoveKeyUpdate(p) ==
    /\ req[p].op = "remove_member_key"
    /\ req[p].pc = "update"
    /\ \E success \in BOOLEAN :
         LET r == req[p] IN
         IF success
         THEN /\ update_household_wrapped_keys(r.household_id, r.keys)
              /\ writes_left' = writes_left - 1
              /\ last_writer' = p
              /\ SetReqWrote(p, Respond(r, OK, [message |-> "removed"]))
         ELSE /\ UNCHANGED <<wrapped_keys, writes_left, last_writer>>
              /\ SetReq(p, Raise(r, ServerError))
    /\ UNCHANGED <<households, users, user_keys, invites, key_writes_left,
                 failures_left, reads_fail, lists, s3_objects, issued, settings>>

\* ----------------------------------------- POST /{household_id}/leave
\* a variant without the owner check: the owner may leave like any member
LeaveGetHouseholdOwnerMayLeave(p, household_id, caller) ==
    /\ IsIdle(p)
    /\ LET r == [Idle EXCEPT !.op = "leave_household",
                             !.household_id = household_id, !.caller = caller]
           household == get_household(household_id)
       IN  SetReq(p, IF household = None THEN Raise(r, NotFound)
                     ELSE IF ~InList(caller, TheValue(household).members)
                          THEN Raise(r, Forbidden)
                          ELSE [r EXCEPT !.pc = "update_household",
                                         !.members = ListWithout(
                                             TheValue(household).members, caller)])
    /\ UnchangedTables
    /\ UnchangedHistory

\* leave_household, lines 134-145: lookup, member and owner checks, new list
LeaveGetHousehold(p, household_id, caller) ==
    /\ IsIdle(p)
    /\ LET r == [Idle EXCEPT !.op = "leave_household",
                             !.household_id = household_id, !.caller = caller]
           household == get_household(household_id)
       IN  SetReq(p, IF household = None THEN Raise(r, NotFound)
                     ELSE IF ~InList(caller, TheValue(household).members)
                          THEN Raise(r, Forbidden)
                     ELSE IF TheValue(household).owner_id = caller
                          THEN Raise(r, BadRequest)
                          ELSE [r EXCEPT !.pc = "update_household",
                                         !.members = ListWithout(
                                             TheValue(household).members, caller)])
    /\ UnchangedTables
    /\ UnchangedHistory

\* mutant of LeaveUpdateHousehold: leaving also revokes the leaver's wrapped key
LeaveUpdateHouseholdRevoking(p) ==
    /\ req[p].op = "leave_household"
    /\ req[p].pc = "update_household"
    /\ households' = [households EXCEPT ![req[p].household_id].members = req[p].members]
    /\ wrapped_keys' = [h \in DOMAIN wrapped_keys |->
                          IF h = req[p].household_id
                          THEN DictDel(wrapped_keys[h], req[p].caller)
                          ELSE wrapped_keys[h]]
    /\ SetReq(p, [req[p] EXCEPT !.pc = "get_user"])
    /\ UNCHANGED <<users, user_keys, invites>>
    /\ UnchangedHistory

\* leave_household, line 146: update_household(household_id, {"members": members})
LeaveUpdateHousehold(p) ==
    /\ req[p].op = "leave_household"
    /\ req[p].pc = "update_household"
    /\ households' = [households EXCEPT ![req[p].household_id].members = req[p].members]
    /\ SetReq(p, [req[p] EXCEPT !.pc = "get_user"])
    /\ UNCHANGED <<users, wrapped_keys, user_keys, invites>>
    /\ UnchangedHistory

\* leave_household, lines 149-151: read the user, filter its households
LeaveGetUser(p) ==
    /\ req[p].op = "leave_household"
    /\ req[p].pc = "get_user"
    /\ LET r == req[p]
           db_user == get_user_by_id(r.caller)
       IN  SetReq(p, IF db_user = None
                     THEN Respond(r, OK, [message |-> "left"])
                     ELSE [r EXCEPT !.pc = "update_user",
                                    !.user_households = ListWithout(
                                        TheValue(db_user).households, r.household_id)])
    /\ UnchangedTables
    /\ UnchangedHistory

\* mutant of LeaveUpdateUser: the leaver's wrapped key is dropped at the end
LeaveUpdateUserRevoking(p) ==
    /\ req[p].op = "leave_household"
    /\ req[p].pc = "update_user"
    /\ users' = [users EXCEPT ![req[p].caller].households = req[p].user_households]
    /\ wrapped_keys' = [h \in DOMAIN wrapped_keys |->
                          IF h = req[p].household_id
                          THEN DictDel(wrapped_keys[h], req[p].caller)
                          ELSE wrapped_keys[h]]
    /\ SetReq(p, Respond(req[p], OK, [message |-> "left"]))
    /\ UNCHANGED <<households, user_keys, invites>>
    /\ UnchangedHistory

\* leave_household, lines 152-155: update_user(user_id, {"households": ...})
LeaveUpdateUser(p) ==
    /\ req[p].op = "leave_household"
    /\ req[p].pc = "update_user"
    /\ users' = [users EXCEPT ![req[p].caller].households = req[p].user_households]
    /\ SetReq(p, Respond(req[p], OK, [message |-> "left"]))
    /\ UNCHANGED <<households, wrapped_keys, user_keys, invites>>
    /\ UnchangedHistory

\* ------------------------------------------------------------ POST /user
\* requests that may still write a key record
KeyWriters ==
    {p \in Slots : req[p].op = "setup_user_keys"
                   /\ req[p].pc \in {"get_keys", "update"}}

\* a request that may write a key record starts only while a write is left
KeyWriteLeft == Cardinality(KeyWriters) < key_writes_left

\* setup_user_keys, lines 76-78: the caller must be a registered user
SetupGetUser(p, caller, data) ==
    /\ IsIdle(p)
    /\ KeyWriteLeft
    /\ LET r == [Idle EXCEPT !.op = "setup_user_keys", !.caller = caller,
                             \* key_data, lines 89-94
                             !.key_data = [public_key |-> data.public_key,
                                 encrypted_private_key |-> data.encrypted_private_key,
                                 private_key_salt |-> data.salt,
                                 encryption_version |-> data.version]]
           db_user == get_user_by_id(caller)
       IN  SetReq(p, IF db_user = None THEN Raise(r, NotFound)
                     ELSE [r EXCEPT !.pc = "get_keys"])
    /\ UnchangedTables
    /\ UnchangedHistory

\* setup_user_keys, lines 80-86: refuse when a public key is already stored
SetupGetKeys(p) ==
    /\ req[p].op = "setup_user_keys"
    /\ req[p].pc = "get_keys"
    /\ LET r == req[p]
           existing_keys == get_user_keys(r.caller)
       IN  SetReq(p, IF HasPublicKey(existing_keys) THEN Raise(r, BadRequest)
                     ELSE [r EXCEPT !.pc = "update"])
    /\ UnchangedTables
    /\ UnchangedHistory

\* setup_user_keys, lines 96-106: store the record, answer the posted fields
SetupUpdate(p) ==
    /\ req[p].op = "setup_user_keys"
    /\ req[p].pc = "update"
    /\ \E success \in BOOLEAN :
         LET r == req[p] IN
         IF success
         THEN /\ update_user_keys(r.caller, r.key_data)
              /\ key_writes_left' = key_writes_left - 1
              /\ SetReq(p, Respond(r, OK,
                     [public_key |-> r.key_data.public_key,
                      encrypted_private_key |-> r.key_data.encrypted_private_key,
                      salt |-> r.key_data.private_key_salt,
                      version |-> r.key_data.encryption_version,
                      has_keys |-> TRUE]))
         ELSE /\ UNCHANGED <<user_keys, key_writes_left>>
              /\ SetReq(p, Raise(r, ServerError))
    /\ UNCHANGED <<households, users, wrapped_keys, invites, writes_left,
                   failures_left, reads_fail, last_writer,
               lists, s3_objects, issued, settings>>

\* ------------------------------------------------------------- GET /user
\* get_user_encryption_keys, lines 115-126
GetUserKeys(p, caller) ==
    /\ IsIdle(p)
    /\ LET r == [Idle EXCEPT !.op = "get_user_encryption_keys", !.caller = caller]
           keys == get_user_keys(caller)
       IN  SetReq(p, IF ~HasPublicKey(keys) THEN Raise(r, NotFound)
                     ELSE Respond(r, OK,
                       [public_key |-> TheValue(keys).public_key,
                        encrypted_private_key |-> TheValue(keys).encrypted_private_key,
                        salt |-> TheValue(keys).private_key_salt,
                        \* keys.get("encryption_version", 1)
                        version |-> IF "encryption_version" \in DOMAIN TheValue(keys)
                                    THEN TheValue(keys).encryption_version ELSE 1,
                        has_keys |-> TRUE]))
    /\ UnchangedTables
    /\ UnchangedHistory

\* ------------------------------------------------------ GET /user/status
\* a variant that refuses a caller who has no user record
GetUserKeyStatusRegisteredOnly(p, caller) ==
    /\ IsIdle(p)
    /\ LET r == [Idle EXCEPT !.op = "get_user_key_status", !.caller = caller]
           keys == get_user_keys(caller)
           has_setup == HasPublicKey(keys)
       IN  SetReq(p, IF get_user_by_id(caller) = None THEN Raise(r, NotFound)
                     ELSE Respond(r, OK,
                       [has_encryption_setup |-> has_setup,
                        public_key |-> IF has_setup
                                       THEN Some(TheValue(keys).public_key)
                                       ELSE None]))
    /\ UnchangedTables
    /\ UnchangedHistory

\* get_user_key_status, lines 135-141
GetUserKeyStatus(p, caller) ==
    /\ IsIdle(p)
    /\ LET r == [Idle EXCEPT !.op = "get_user_key_status", !.caller = caller]
           keys == get_user_keys(caller)
           has_setup == HasPublicKey(keys)
       IN  SetReq(p, Respond(r, OK,
                       [has_encryption_setup |-> has_setup,
                        public_key |-> IF has_setup
                                       THEN Some(TheValue(keys).public_key)
                                       ELSE None]))
    /\ UnchangedTables
    /\ UnchangedHistory

\* -------------------------------------------- GET /user/{user_id}/public
\* a variant that answers only callers who share a household with the target
GetPublicKeyGetUserSharedHousehold(p, caller, user_id) ==
    /\ IsIdle(p)
    /\ LET r == [Idle EXCEPT !.op = "get_user_public_key", !.caller = caller,
                             !.user_id = user_id]
           target_user == get_user_by_id(user_id)
       IN  SetReq(p, IF target_user = None
                     THEN RaiseDetail(r, NotFound, "User not found")
                     ELSE IF \A h \in DOMAIN households :
                                ~(/\ InList(caller, households[h].members)
                                  /\ InList(user_id, households[h].members))
                          THEN Raise(r, Forbidden)
                     ELSE [r EXCEPT !.pc = "get_keys"])
    /\ UnchangedTables
    /\ UnchangedHistory

\* get_user_public_key, lines 150-152: the target must be a registered user
GetPublicKeyGetUser(p, caller, user_id) ==
    /\ IsIdle(p)
    /\ LET r == [Idle EXCEPT !.op = "get_user_public_key", !.caller = caller,
                             !.user_id = user_id]
           target_user == get_user_by_id(user_id)
       IN  SetReq(p, IF target_user = None
                     THEN RaiseDetail(r, NotFound, "User not found")
                     ELSE [r EXCEPT !.pc = "get_keys"])
    /\ UnchangedTables
    /\ UnchangedHistory

\* a variant that answers the whole key record of the target
GetPublicKeyGetKeysWholeRecord(p) ==
    /\ req[p].op = "get_user_public_key"
    /\ req[p].pc = "get_keys"
    /\ LET r == req[p]
           keys == get_user_keys(r.user_id)
       IN  SetReq(p, IF ~HasPublicKey(keys)
                     THEN RaiseDetail(r, NotFound,
                                      "User has not set up encryption")
                     ELSE Respond(r, OK,
                            [user_id |-> r.user_id,
                             public_key |-> TheValue(keys).public_key,
                             encrypted_private_key |->
                                 TheValue(keys).encrypted_private_key,
                             salt |-> TheValue(keys).private_key_salt]))
    /\ UnchangedTables
    /\ UnchangedHistory

\* get_user_public_key, lines 154-164: answer the public key only
GetPublicKeyGetKeys(p) ==
    /\ req[p].op = "get_user_public_key"
    /\ req[p].pc = "get_keys"
    /\ LET r == req[p]
           keys == get_user_keys(r.user_id)
       IN  SetReq(p, IF ~HasPublicKey(keys)
                     THEN RaiseDetail(r, NotFound,
                                      "User has not set up encryption")
                     ELSE Respond(r, OK, [user_id |-> r.user_id,
                                          public_key |-> TheValue(keys).public_key]))
    /\ UnchangedTables
    /\ UnchangedHistory

\* ------------------------------------------- POST /invites/{invite_id}/accept
\* the email address in the token of user u
Email(u) == IF u = "o" THEN "o@x" ELSE IF u = "a" THEN "a@x" ELSE "c@x"

\* str.lower() on the addresses in use
Lower(e) == IF e = "A@x" THEN "a@x" ELSE e

\* uuid.uuid4() of create_household: a fresh id, one per call in flight
NewHouseholdId(p) == IF p = "p1" THEN "hp1" ELSE "hp2"

\* where a request goes when database.accept_invite has returned `result`:
\* accept_invite_route raises 500 on False and looks the household up on True
\* (invites.py 143-146); register_user ignores the result and goes on with
\* its loop over the pending invites (auth.py 62-68)
AfterAcceptInvite(r, result) ==
    IF r.op = "accept_invite_route"
    THEN IF result THEN [r EXCEPT !.pc = "route_get_household"]
         ELSE Raise(r, ServerError)
    ELSE IF r.pending = <<>>
         THEN Respond(r, OK, [message |-> "registered"])
         ELSE [r EXCEPT !.pc = "accept_get_invite",
                        !.invite_id = Head(r.pending),
                        !.pending = Tail(r.pending)]

\* the outcomes of a directory write: done, or ClientError while one is left
StoreOutcomes == IF failures_left > 0 THEN BOOLEAN ELSE {TRUE}

\* a variant without the address check: any user may accept any invite
AcceptRouteGetInviteAnyAddress(p, invite_id, caller) ==
    /\ IsIdle(p)
    /\ LET r == [Idle EXCEPT !.op = "accept_invite_route", !.caller = caller,
                             !.invite_id = invite_id]
           invite == get_invite(invite_id)
       IN  SetReq(p, IF invite = None THEN Raise(r, NotFound)
                     ELSE IF TheValue(invite).status # "pending"
                          THEN Raise(r, BadRequest)
                          ELSE [r EXCEPT !.pc = "accept_get_invite"])
    /\ UnchangedTables
    /\ UnchangedHistory

\* accept_invite_route, lines 132-141: lookup, status and address checks
AcceptRouteGetInvite(p, invite_id, caller) ==
    /\ IsIdle(p)
    /\ LET r == [Idle EXCEPT !.op = "accept_invite_route", !.caller = caller,
                             !.invite_id = invite_id]
           invite == get_invite(invite_id)
       IN  SetReq(p, IF invite = None THEN Raise(r, NotFound)
                     ELSE IF TheValue(invite).status # "pending"
                          THEN Raise(r, BadRequest)
                     ELSE IF Lower(TheValue(invite).email) # Lower(Email(caller))
                          THEN Raise(r, Forbidden)
                          ELSE [r EXCEPT !.pc = "accept_get_invite"])
    /\ UnchangedTables
    /\ UnchangedHistory

\* database.accept_invite, lines 364-369: the invite must still be pending
AcceptInviteGetInvite(p) ==
    /\ req[p].op \in {"accept_invite_route", "register_user"}
    /\ req[p].pc = "accept_get_invite"
    /\ LET r == req[p]
           invite == get_invite(r.invite_id)
       IN  SetReq(p, IF invite = None \/ TheValue(invite).status # "pending"
                     THEN AfterAcceptInvite(r, FALSE)
                     ELSE [r EXCEPT !.pc = "add_member_get_household",
                                    !.household_id = TheValue(invite).household_id])
    /\ UnchangedTables
    /\ UnchangedHistory

\* database.add_member_to_household, lines 157-159: nothing to do for a member
AddMemberGetHousehold(p) ==
    /\ req[p].pc = "add_member_get_household"
    /\ LET r == req[p]
           household == get_household(r.household_id)
       IN  SetReq(p, IF household # None
                        /\ InList(r.caller, TheValue(household).members)
                     THEN [r EXCEPT !.pc = "accept_update_invite"]
                     ELSE [r EXCEPT !.pc = "add_member_update"])
    /\ UnchangedTables
    /\ UnchangedHistory

\* database.add_member_to_household, lines 161-175: list_append to members
AddMemberUpdate(p) ==
    /\ req[p].pc = "add_member_update"
    /\ req[p].household_id \in DOMAIN households
    /\ \E success \in StoreOutcomes :
         LET r == req[p] IN
         /\ failures_left' = IF success THEN failures_left ELSE failures_left - 1
         /\ IF success
            THEN
              /\ households' = [households EXCEPT ![r.household_id].members =
                                    Append(@, r.caller)]
              /\ SetReq(p, [r EXCEPT !.pc = "add_household_get_user",
                                     !.ret = "accept_update_invite"])
            ELSE
              /\ UNCHANGED households
              /\ SetReq(p, [r EXCEPT !.pc = "accept_update_invite"])
    /\ UNCHANGED <<users, wrapped_keys, user_keys, invites>>
    /\ UNCHANGED <<writes_left, key_writes_left, reads_fail, last_writer,
               lists, s3_objects, issued, settings>>

\* database.add_household_to_user, lines 90-92: nothing to do when listed
AddHouseholdGetUser(p) ==
    /\ req[p].pc = "add_household_get_user"
    /\ LET r == req[p]
           user == get_user_by_id(r.caller)
       IN  SetReq(p, IF user # None
                        /\ InList(r.household_id, TheValue(user).households)
                     THEN [r EXCEPT !.pc = r.ret]
                     ELSE [r EXCEPT !.pc = "add_household_update"])
    /\ UnchangedTables
    /\ UnchangedHistory

\* database.add_household_to_user, lines 94-107: list_append to households;
\* update_item creates the item when the user has none
AddHouseholdUpdate(p) ==
    /\ req[p].pc = "add_household_update"
    /\ \E success \in StoreOutcomes :
         LET r == req[p] IN
         /\ failures_left' = IF success THEN failures_left ELSE failures_left - 1
         /\ IF success
            THEN users' = [u \in (DOMAIN users) \cup {r.caller} |->
                             IF u # r.caller THEN users[u]
                             ELSE IF u \in DOMAIN users
                                  THEN [users[u] EXCEPT !.households =
                                           Append(@, r.household_id)]
                                  ELSE [households |-> <<r.household_id>>]]
            ELSE UNCHANGED users
         /\ SetReq(p, [r EXCEPT !.pc = r.ret])
    /\ UNCHANGED <<households, wrapped_keys, user_keys, invites>>
    /\ UNCHANGED <<writes_left, key_writes_left, reads_fail, last_writer,
               lists, s3_objects, issued, settings>>

\* database.accept_invite, lines 371-382: the invite becomes accepted
AcceptInviteUpdate(p) ==
    /\ req[p].pc = "accept_update_invite"
    /\ \E success \in StoreOutcomes :
         LET r == req[p] IN
         /\ failures_left' = IF success THEN failures_left ELSE failures_left - 1
         /\ IF success
            THEN invites' = [i \in (DOMAIN invites) \cup {r.invite_id} |->
                               IF i # r.invite_id THEN invites[i]
                               ELSE IF i \in DOMAIN invites
                                    THEN [invites[i] EXCEPT !.status = "accepted"]
                                    ELSE [NoInvite EXCEPT !.status = "accepted"]]
            ELSE UNCHANGED invites
         /\ SetReq(p, AfterAcceptInvite(r, success))
    /\ UNCHANGED <<households, users, wrapped_keys, user_keys>>
    /\ UNCHANGED <<writes_left, key_writes_left, reads_fail, last_writer,
               lists, s3_objects, issued, settings>>

\* accept_invite_route, lines 146-152: look the household up for the answer
AcceptRouteGetHousehold(p) ==
    /\ req[p].op = "accept_invite_route"
    /\ req[p].pc = "route_get_household"
    /\ SetReq(p, Respond(req[p], OK, [message |-> "accepted"]))
    /\ UnchangedTables
    /\ UnchangedHistory

\* --------------------------------------------------- POST /auth/register
\* register_user, lines 39-41: a registered user is answered as it is
RegisterGetUser(p, caller) ==
    /\ IsIdle(p)
    /\ LET r == [Idle EXCEPT !.op = "register_user", !.caller = caller]
           existing == get_user_by_id(caller)
       IN  SetReq(p, IF existing # None
                     THEN Respond(r, OK, [message |-> "registered"])
                     ELSE [r EXCEPT !.pc = "create_user"])
    /\ UnchangedTables
    /\ UnchangedHistory

\* register_user, lines 44-49, database.create_user: put_item of a new user
RegisterCreateUser(p) ==
    /\ req[p].op = "register_user"
    /\ req[p].pc = "create_user"
    /\ users' = [u \in (DOMAIN users) \cup {req[p].caller} |->
                    IF u = req[p].caller THEN [households |-> <<>>] ELSE users[u]]
    /\ SetReq(p, [req[p] EXCEPT !.pc = "create_household"])
    /\ UNCHANGED <<households, wrapped_keys, user_keys, invites>>
    /\ UnchangedHistory

\* register_user, lines 52-55, database.create_household, lines 115-129:
\* put_item of the personal household, then add_household_to_user
RegisterCreateHousehold(p) ==
    /\ req[p].op = "register_user"
    /\ req[p].pc = "create_household"
    /\ LET r == req[p]
           household_id == NewHouseholdId(p)
       IN  /\ households' = [h \in (DOMAIN households) \cup {household_id} |->
                               IF h = household_id
                               THEN [owner_id |-> r.caller, members |-> <<r.caller>>]
                               ELSE households[h]]
           /\ SetReq(p, [r EXCEPT !.pc = "add_household_get_user",
                                  !.household_id = household_id,
                                  !.ret = "register_refresh"])
    /\ UNCHANGED <<users, wrapped_keys, user_keys, invites>>
    /\ UnchangedHistory

\* register_user, line 58: the user is read again
RegisterRefreshUser(p) ==
    /\ req[p].op = "register_user"
    /\ req[p].pc = "register_refresh"
    /\ LET r == req[p]
           new_user == get_user_by_id(r.caller)
       IN  SetReq(p, [r EXCEPT !.pc = "get_invites",
                               !.user_households =
                                   IF new_user = None THEN <<>>
                                   ELSE TheValue(new_user).households])
    /\ UnchangedTables
    /\ UnchangedHistory

\* the ids in s as a list, in the order of the ids
RECURSIVE ListOfInvites(_)
ListOfInvites(s) ==
    IF s = {} THEN <<>>
    ELSE LET i == CHOOSE x \in s : \A y \in s : x = "i1" \/ y # "i1"
         IN  <<i>> \o ListOfInvites(s \ {i})

\* database.get_invites_by_email, lines 351-358: the pending invites whose
\* address is exactly the given one
get_invites_by_email(email) ==
    ListOfInvites({i \in DOMAIN invites :
                     invites[i].email = email /\ invites[i].status = "pending"})

\* register_user, lines 61-68: every pending invite of the address is accepted
RegisterGetInvites(p) ==
    /\ req[p].op = "register_user"
    /\ req[p].pc = "get_invites"
    /\ LET r == req[p]
           pending == get_invites_by_email(Email(r.caller))
       IN  SetReq(p, AfterAcceptInvite([r EXCEPT !.pending = pending], TRUE))
    /\ UnchangedTables
    /\ UnchangedHistory

\* the response has been delivered, the slot is free for the next request
Retire(p) ==
    /\ IsDone(p)
    /\ SetReq(p, Idle)
    /\ last_writer' = IF last_writer = p THEN "" ELSE last_writer
    /\ UnchangedTables
    /\ UNCHANGED <<writes_left, key_writes_left, failures_left, reads_fail, lists, s3_objects, issued, settings>>

\* --------------------------------------------------- the vault, membership
\* the maps posted to SetAllKeys: the empty map, the owner alone, owner and a
WrappedKeyMaps ==
    {EmptyMap, [u \in {"o"} |-> "wo2"],
     [u \in {"o", "a"} |-> IF u = "o" THEN "wo1" ELSE "wa2"]}

\* the tables after household h1 was created by o and joined by a and c;
\* no key has been distributed yet
InitTables ==
    /\ households = [h \in {"h1"} |-> [owner_id |-> "o", members |-> <<"o", "a", "c">>]]
    /\ users = [u \in Users |-> [households |-> <<"h1">>]]
    /\ wrapped_keys = [h \in {} |-> EmptyMap]
    /\ user_keys = [u \in {} |-> NoKeyData]
    /\ invites = [i \in {} |-> NoInvite]
    /\ req = [p \in Slots |-> Idle]
    /\ last_writer = ""

\* a step of the four vault handlers in slot p
VaultStep(p) ==
    \/ \E h \in HouseholdIds, u \in Users : GetKeyGetHousehold(p, h, u)
    \/ GetKeyGetKeys(p)
    \/ \E h \in HouseholdIds, u \in Users, m \in WrappedKeyMaps :
          SetKeysGetHousehold(p, h, u, m)
    \/ SetKeysUpdate(p)
    \/ \E h \in HouseholdIds, u \in Users, t \in Users :
        \E w \in WrappedKeyValues(t) :
          AddKeyGetHousehold(p, h, u, t, w)
    \/ AddKeyGetKeys(p)
    \/ AddKeyUpdate(p)
    \/ \E h \in HouseholdIds, u \in Users, m \in Users :
          RemoveKeyGetHousehold(p, h, u, m)
    \/ RemoveKeyGetKeys(p)
    \/ RemoveKeyUpdate(p)

\* a step of the leave handler in slot p
LeaveStep(p) ==
    \/ \E h \in HouseholdIds, u \in Users : LeaveGetHousehold(p, h, u)
    \/ LeaveUpdateHousehold(p)
    \/ LeaveGetUser(p)
    \/ LeaveUpdateUser(p)

\* ---- SpecVault: the vault handlers of two concurrent requests, fixed members
InitVault ==
    /\ InitTables
    /\ writes_left = MaxVaultWrites
    /\ key_writes_left = 0
    /\ failures_left = 0
    /\ reads_fail = FALSE
    /\ lists = [l \in {} |-> [household_id |-> "", attachments |-> <<>>]]
    /\ s3_objects = {}
    /\ issued = 0
    /\ settings = [ATTACHMENTS_BUCKET |-> ""]

NextVault == \E p \in Slots : VaultStep(p) \/ Retire(p)

SpecVault == InitVault /\ [][NextVault]_vars

\* ---- SpecMembers: the vault handlers together with members leaving
InitMembers ==
    /\ InitTables
    /\ writes_left = MaxMemberVaultWrites
    /\ key_writes_left = 0
    /\ failures_left = 0
    /\ reads_fail = FALSE
    /\ lists = [l \in {} |-> [household_id |-> "", attachments |-> <<>>]]
    /\ s3_objects = {}
    /\ issued = 0
    /\ settings = [ATTACHMENTS_BUCKET |-> ""]

NextMembers == \E p \in Slots : VaultStep(p) \/ LeaveStep(p) \/ Retire(p)

SpecMembers == InitMembers /\ [][NextMembers]_vars

\* ---- SpecRegistry: the user key endpoints of two concurrent requests
\* the key material a client may post
UserKeySetups ==
    [public_key : PublicKeyValues, encrypted_private_key : PrivateKeyValues,
     salt : SaltValues, version : VersionValues]

\* o and a are registered and share household h1, c has not registered yet;
\* nobody has set up encryption
InitRegistry ==
    /\ households = [h \in {"h1"} |-> [owner_id |-> "o", members |-> <<"o", "a">>]]
    /\ users = [u \in {"o", "a"} |-> [households |-> <<"h1">>]]
    /\ wrapped_keys = [h \in {} |-> EmptyMap]
    /\ user_keys = [u \in {} |-> NoKeyData]
    /\ invites = [i \in {} |-> NoInvite]
    /\ req = [p \in Slots |-> Idle]
    /\ last_writer = ""
    /\ writes_left = 0
    /\ key_writes_left = MaxKeyWrites
    /\ failures_left = 0
    /\ reads_fail = FALSE
    /\ lists = [l \in {} |-> [household_id |-> "", attachments |-> <<>>]]
    /\ s3_objects = {}
    /\ issued = 0
    /\ settings = [ATTACHMENTS_BUCKET |-> ""]

\* a step of the four user key handlers in slot p
RegistryStep(p) ==
    \/ \E u \in Users, data \in UserKeySetups : SetupGetUser(p, u, data)
    \/ SetupGetKeys(p)
    \/ SetupUpdate(p)
    \/ \E u \in Users : GetUserKeys(p, u)
    \/ \E u \in Users : GetUserKeyStatus(p, u)
    \/ \E u \in Users, t \in Users : GetPublicKeyGetUser(p, u, t)
    \/ GetPublicKeyGetKeys(p)

NextRegistry == \E p \in Slots : RegistryStep(p) \/ Retire(p)

SpecRegistry == InitRegistry /\ [][NextRegistry]_vars

\* ---- SpecDirectory: invite acceptance, registration and leaving
InviteIds == {"i1", "i2"}

\* household h1 of owner o; a was a member, got a wrapped key and left, its
\* entry is still in the map; a has a pending invite sent to "A@x"; c has not
\* registered and has a pending invite sent to "c@x"
InitDirectory ==
    /\ households = [h \in {"h1"} |-> [owner_id |-> "o", members |-> <<"o">>]]
    /\ users = [u \in {"o", "a"} |->
                   [households |-> IF u = "o" THEN <<"h1">> ELSE <<>>]]
    /\ wrapped_keys = [h \in {"h1"} |->
                          [u \in {"o", "a"} |-> IF u = "o" THEN "wo1" ELSE "wa2"]]
    /\ user_keys = [u \in {} |-> NoKeyData]
    /\ invites = [i \in InviteIds |->
                    [household_id |-> "h1",
                     email |-> IF i = "i1" THEN "c@x" ELSE "A@x",
                     status |-> "pending"]]
    /\ req = [p \in Slots |-> Idle]
    /\ last_writer = ""
    /\ writes_left = 0
    /\ key_writes_left = 0
    /\ failures_left = MaxDirectoryFailures
    /\ reads_fail = FALSE
    /\ lists = [l \in {} |-> [household_id |-> "", attachments |-> <<>>]]
    /\ s3_objects = {}
    /\ issued = 0
    /\ settings = [ATTACHMENTS_BUCKET |-> ""]

\* a step of the invite acceptance route or of registration in slot p
InviteStep(p) ==
    \/ \E i \in InviteIds, u \in Users : AcceptRouteGetInvite(p, i, u)
    \/ AcceptInviteGetInvite(p)
    \/ AddMemberGetHousehold(p)
    \/ AddMemberUpdate(p)
    \/ AddHouseholdGetUser(p)
    \/ AddHouseholdUpdate(p)
    \/ AcceptInviteUpdate(p)
    \/ AcceptRouteGetHousehold(p)
    \/ \E u \in Users : RegisterGetUser(p, u)
    \/ RegisterCreateUser(p)
    \/ RegisterCreateHousehold(p)
    \/ RegisterRefreshUser(p)
    \/ RegisterGetInvites(p)

NextDirectory ==
    \E p \in Slots : InviteStep(p) \/ LeaveStep(p) \/ Retire(p)

SpecDirectory == InitDirectory /\ [][NextDirectory]_vars

\* ---- SpecOutage: the vault handlers while the store's reads may fail
\* boto3 raises ClientError from get_item: from now on the reads fail
StoreReadsFail ==
    /\ ~reads_fail
    /\ reads_fail' = TRUE
    /\ UnchangedTables
    /\ UNCHANGED <<req, writes_left, key_writes_left, failures_left, last_writer,
                 lists, s3_objects, issued, settings>>

\* the store answers its reads again
StoreReadsRecover ==
    /\ reads_fail
    /\ reads_fail' = FALSE
    /\ UnchangedTables
    /\ UNCHANGED <<req, writes_left, key_writes_left, failures_left, last_writer,
                 lists, s3_objects, issued, settings>>

\* the key record user u stored by SetupUserKeys
KeyRecordOf(u) ==
    [public_key |-> IF u = "o" THEN "pk1" ELSE "pk2",
     encrypted_private_key |-> IF u = "o" THEN "e1" ELSE "e2",
     private_key_salt |-> "s1", encryption_version |-> 1]

\* household h1 of owner o with members a and c; o and a have set up their
\* user keys; no wrapped key has been distributed yet
InitOutage ==
    /\ households = [h \in {"h1"} |-> [owner_id |-> "o", members |-> <<"o", "a", "c">>]]
    /\ users = [u \in Users |-> [households |-> <<"h1">>]]
    /\ wrapped_keys = [h \in {} |-> EmptyMap]
    /\ user_keys = [u \in {"o", "a"} |-> KeyRecordOf(u)]
    /\ invites = [i \in {} |-> NoInvite]
    /\ req = [p \in Slots |-> Idle]
    /\ last_writer = ""
    /\ writes_left = MaxOutageWrites
    /\ key_writes_left = 0
    /\ failures_left = 0
    /\ reads_fail = FALSE
    /\ lists = [l \in {} |-> [household_id |-> "", attachments |-> <<>>]]
    /\ s3_objects = {}
    /\ issued = 0
    /\ settings = [ATTACHMENTS_BUCKET |-> ""]

NextOutage ==
    \/ StoreReadsFail
    \/ StoreReadsRecover
    \/ \E p \in Slots : VaultStep(p) \/ Retire(p)

SpecOutage == InitOutage /\ [][NextOutage]_vars

\* ---- SpecAttachments: the attachment routes of one list (routes/attachments.py)
\* attachments.py, lines 30-32
MAX_FILE_SIZE == 10 * 1024 * 1024
MAX_ATTACHMENTS_PER_LIST == 10
MAX_TOTAL_SIZE_PER_LIST == 50 * 1024 * 1024

\* further HTTP status codes of the attachment routes
Unprocessable == 422
ServiceUnavailable == 503

\* the list ids a request may name; "l1" is the list in the table
ListIds == {"l1"}
\* the callers of the attachment routes: the member o and the outsider c
AttachmentCallers == {"o", "c"}
\* the sizes posted in an UploadUrlRequest: the largest file admitted and one
\* byte more
UploadSizes == {MAX_FILE_SIZE, MAX_FILE_SIZE + 1}
\* the attachments of list l1 when the exploration starts: ids 1..5 hold one
\* byte each, ids 6..8 MAX_FILE_SIZE bytes each
StoredIds == 1..8
\* str(uuid.uuid4()): an id that no attachment had before
NewAttachmentId == 10 + issued + 1
\* the attachment ids a request may name: the ones issued so far
AttachmentIds == 11..(10 + issued)

\* UploadUrlRequest.validate_size
validate_size(v) == v > 0 /\ v <= MAX_FILE_SIZE

NoAttachment == [id |-> 0, size |-> 0, status |-> ""]

\* table.get_item(Key={"list_id": list_id, "household_id": household_id});
\* `except ClientError: return None`
get_list(list_id, household_id) ==
    IF ~reads_fail /\ list_id \in DOMAIN lists
       /\ lists[list_id].household_id = household_id
    THEN Some(lists[list_id]) ELSE None

\* [a for a in attachments if a.get("status") == "confirmed"]
RECURSIVE ConfirmedOf(_)
ConfirmedOf(attachments) ==
    IF attachments = <<>> THEN <<>>
    ELSE IF Head(attachments).status = "confirmed"
         THEN <<Head(attachments)>> \o ConfirmedOf(Tail(attachments))
         ELSE ConfirmedOf(Tail(attachments))

\* sum(a.get("size", 0) for a in attachments)
RECURSIVE SumOfSizes(_)
SumOfSizes(attachments) ==
    IF attachments = <<>> THEN 0
    ELSE Head(attachments).size + SumOfSizes(Tail(attachments))

\* the attachments without those of the given id
RECURSIVE AttachmentsWithout(_, _)
AttachmentsWithout(attachments, attachment_id) ==
    IF attachments = <<>> THEN <<>>
    ELSE IF Head(attachments).id = attachment_id
         THEN AttachmentsWithout(Tail(attachments), attachment_id)
         ELSE <<Head(attachments)>> \o AttachmentsWithout(Tail(attachments), attachment_id)

\* the attachment of the list with the given id, None when there is none
get_attachment(list_id, household_id, attachment_id) ==
    LET list_item == get_list(list_id, household_id)
    IN  IF list_item = None THEN None
        ELSE LET found == {i \in 1..Len(TheValue(list_item).attachments) :
                              TheValue(list_item).attachments[i].id = attachment_id}
             IN  IF found = {} THEN None
                 ELSE Some(TheValue(list_item).attachments[CHOOSE i \in found : TRUE])

\* the attachment is appended to the attachments of the list
add_attachment_to_list(list_id, household_id, attachment) ==
    lists' = [lists EXCEPT ![list_id].attachments = Append(@, attachment)]

\* the attachment of the given id is taken out of the attachments of the list
remove_attachment_from_list(list_id, household_id, attachment_id) ==
    lists' = [lists EXCEPT ![list_id].attachments =
                               AttachmentsWithout(@, attachment_id)]

\* the status of the attachment of the given id is set
update_attachment_status(list_id, household_id, attachment_id, status) ==
    lists' = [lists EXCEPT ![list_id].attachments =
                 [i \in 1..Len(@) |->
                     IF @[i].id = attachment_id
                     THEN [@[i] EXCEPT !.status = status] ELSE @[i]]]

\* verify_list_access: the status it raises, 0 when it returns the list item;
\* neither the household nor the existence of the list changes while the
\* attachment routes run, so its two reads are taken in one step
verify_list_access(list_id, household_id, user_id) ==
    LET household == get_household(household_id)
    IN  IF household = None THEN NotFound
        ELSE IF ~InList(user_id, TheValue(household).members) THEN Forbidden
        ELSE IF get_list(list_id, household_id) = None THEN NotFound
        ELSE 0

\* check_attachment_limits: the status it raises, 0 when it returns
check_attachment_limits(list_item, new_size) ==
    LET confirmed == ConfirmedOf(list_item.attachments)
    IN  IF Len(confirmed) >= MAX_ATTACHMENTS_PER_LIST THEN BadRequest
        ELSE IF SumOfSizes(confirmed) + new_size > MAX_TOTAL_SIZE_PER_LIST
             THEN BadRequest
             ELSE 0

\* the frame of the attachment routes on the key-distribution side
UnchangedKeySide ==
    UNCHANGED <<writes_left, key_writes_left, reads_fail, last_writer>>

\* the outcomes of issuing an upload URL: done, or a failure while one is left
UploadOutcomes ==
    IF failures_left > 0 THEN {"ok", "add_failed", "sign_failed"} ELSE {"ok"}

\* get_upload_url, lines 152-159: the request is validated, the caller's
\* access verified, the limits checked on the list item just read and the
\* attachment id drawn
GetUploadUrlCheck(p, list_id, household_id, caller, size) ==
    /\ IsIdle(p)
    /\ LET r == [Idle EXCEPT !.op = "get_upload_url", !.list_id = list_id,
                             !.household_id = household_id, !.caller = caller,
                             !.size = size]
           denied == verify_list_access(list_id, household_id, caller)
       IN  IF ~validate_size(size)
           THEN SetReq(p, Raise(r, Unprocessable)) /\ UNCHANGED issued
           ELSE IF settings.ATTACHMENTS_BUCKET = ""
           THEN SetReq(p, Raise(r, ServiceUnavailable)) /\ UNCHANGED issued
           ELSE IF denied # 0
           THEN SetReq(p, Raise(r, denied)) /\ UNCHANGED issued
           ELSE IF check_attachment_limits(lists[list_id], size) # 0
           THEN /\ SetReq(p, Raise(r, check_attachment_limits(lists[list_id], size)))
                /\ UNCHANGED issued
           ELSE /\ issued < MaxUploads
                /\ SetReq(p, [r EXCEPT !.pc = "add_attachment",
                                       !.attachment_id = NewAttachmentId])
                /\ issued' = issued + 1
    /\ UnchangedTables
    /\ UnchangedKeySide
    /\ UNCHANGED <<failures_left, lists, s3_objects, settings>>

\* get_upload_url, lines 162-198: the pending attachment is stored and the
\* presigned PUT URL generated
GetUploadUrlAdd(p) ==
    /\ req[p].op = "get_upload_url"
    /\ req[p].pc = "add_attachment"
    /\ LET r == req[p]
           attachment == [id |-> r.attachment_id, size |-> r.size,
                          status |-> "pending"]
       IN  \E outcome \in UploadOutcomes :
              /\ IF outcome = "add_failed"
                 THEN UNCHANGED lists
                 ELSE add_attachment_to_list(r.list_id, r.household_id, attachment)
              /\ failures_left' = IF outcome = "ok" THEN failures_left
                                  ELSE failures_left - 1
              /\ SetReq(p, IF outcome = "ok"
                           THEN Respond(r, OK, [attachment_id |-> r.attachment_id])
                           ELSE IF outcome = "add_failed"
                                THEN Raise(r, ServerError)
                                ELSE [r EXCEPT !.pc = "remove_unsigned"])
    /\ UnchangedTables
    /\ UnchangedKeySide
    /\ UNCHANGED <<s3_objects, issued, settings>>

\* get_upload_url, lines 190-192: no URL could be generated, the pending
\* attachment is removed again
GetUploadUrlRemove(p) ==
    /\ req[p].op = "get_upload_url"
    /\ req[p].pc = "remove_unsigned"
    /\ remove_attachment_from_list(req[p].list_id, req[p].household_id,
                                   req[p].attachment_id)
    /\ SetReq(p, Raise(req[p], ServerError))
    /\ UnchangedTables
    /\ UnchangedKeySide
    /\ UNCHANGED <<failures_left, s3_objects, issued, settings>>

\* the client PUTs the encrypted file to the presigned URL of an issued id
ClientPutsObject(attachment_id) ==
    /\ get_attachment("l1", "h1", attachment_id) # None
    /\ attachment_id \notin s3_objects
    /\ s3_objects' = s3_objects \cup {attachment_id}
    /\ UnchangedTables
    /\ UnchangedKeySide
    /\ UNCHANGED <<req, failures_left, lists, issued, settings>>

\* confirm_upload, lines 211-219: access, the attachment and its status
ConfirmUploadGetAttachment(p, list_id, household_id, caller, attachment_id) ==
    /\ IsIdle(p)
    /\ LET r == [Idle EXCEPT !.op = "confirm_upload", !.list_id = list_id,
                             !.household_id = household_id, !.caller = caller,
                             !.attachment_id = attachment_id]
           denied == verify_list_access(list_id, household_id, caller)
           attachment == get_attachment(list_id, household_id, attachment_id)
       IN  SetReq(p, IF denied # 0 THEN Raise(r, denied)
                     ELSE IF attachment = None THEN Raise(r, NotFound)
                     ELSE IF TheValue(attachment).status = "confirmed"
                     THEN Respond(r, OK, [message |-> "already confirmed"])
                     ELSE IF settings.ATTACHMENTS_BUCKET = ""
                     THEN [r EXCEPT !.pc = "update_status"]
                     ELSE [r EXCEPT !.pc = "head_object"])
    /\ UnchangedTables
    /\ UnchangedHistory

\* confirm_upload, lines 222-227: s3_client.head_object
ConfirmUploadHeadObject(p) ==
    /\ req[p].op = "confirm_upload"
    /\ req[p].pc = "head_object"
    /\ SetReq(p, IF req[p].attachment_id \in s3_objects
                 THEN [req[p] EXCEPT !.pc = "update_status"]
                 ELSE [req[p] EXCEPT !.pc = "remove_attachment"])
    /\ UnchangedTables
    /\ UnchangedHistory

\* confirm_upload, lines 228-230: the object is not there, the attachment is
\* removed (the result of the removal is not looked at)
ConfirmUploadRemove(p) ==
    /\ req[p].op = "confirm_upload"
    /\ req[p].pc = "remove_attachment"
    /\ \E ok \in StoreOutcomes :
          /\ IF ok
             THEN remove_attachment_from_list(req[p].list_id, req[p].household_id,
                                              req[p].attachment_id)
             ELSE UNCHANGED lists
          /\ failures_left' = IF ok THEN failures_left ELSE failures_left - 1
    /\ SetReq(p, Raise(req[p], BadRequest))
    /\ UnchangedTables
    /\ UnchangedKeySide
    /\ UNCHANGED <<s3_objects, issued, settings>>

\* confirm_upload, lines 232-236: update_attachment_status(..., "confirmed")
ConfirmUploadUpdateStatus(p) ==
    /\ req[p].op = "confirm_upload"
    /\ req[p].pc = "update_status"
    /\ \E ok \in StoreOutcomes :
          /\ IF ok
             THEN update_attachment_status(req[p].list_id, req[p].household_id,
                                           req[p].attachment_id, "confirmed")
             ELSE UNCHANGED lists
          /\ failures_left' = IF ok THEN failures_left ELSE failures_left - 1
          /\ SetReq(p, IF ok THEN Respond(req[p], OK, [message |-> "confirmed"])
                       ELSE Raise(req[p], ServerError))
    /\ UnchangedTables
    /\ UnchangedKeySide
    /\ UNCHANGED <<s3_objects, issued, settings>>

\* get_download_url, lines 250-278
GetDownloadUrl(p, list_id, household_id, caller, attachment_id) ==
    /\ IsIdle(p)
    /\ LET r == [Idle EXCEPT !.op = "get_download_url", !.list_id = list_id,
                             !.household_id = household_id, !.caller = caller,
                             !.attachment_id = attachment_id]
           denied == verify_list_access(list_id, household_id, caller)
           attachment == get_attachment(list_id, household_id, attachment_id)
       IN  SetReq(p, IF settings.ATTACHMENTS_BUCKET = ""
                     THEN Raise(r, ServiceUnavailable)
                     ELSE IF denied # 0 THEN Raise(r, denied)
                     ELSE IF attachment = None THEN Raise(r, NotFound)
                     ELSE IF TheValue(attachment).status # "confirmed"
                     THEN Raise(r, BadRequest)
                     ELSE Respond(r, OK, [download_url |-> attachment_id]))
    /\ UnchangedTables
    /\ UnchangedHistory

\* delete_attachment, lines 291-295: access and the attachment
DeleteAttachmentGetAttachment(p, list_id, household_id, caller, attachment_id) ==
    /\ IsIdle(p)
    /\ LET r == [Idle EXCEPT !.op = "delete_attachment", !.list_id = list_id,
                             !.household_id = household_id, !.caller = caller,
                             !.attachment_id = attachment_id]
           denied == verify_list_access(list_id, household_id, caller)
           attachment == get_attachment(list_id, household_id, attachment_id)
       IN  SetReq(p, IF denied # 0 THEN Raise(r, denied)
                     ELSE IF attachment = None THEN Raise(r, NotFound)
                     ELSE IF settings.ATTACHMENTS_BUCKET = ""
                     THEN [r EXCEPT !.pc = "remove_attachment"]
                     ELSE [r EXCEPT !.pc = "delete_object"])
    /\ UnchangedTables
    /\ UnchangedHistory

\* delete_attachment, lines 298-306: s3_client.delete_object; a failure is
\* printed and the handler goes on
DeleteAttachmentDeleteObject(p) ==
    /\ req[p].op = "delete_attachment"
    /\ req[p].pc = "delete_object"
    /\ \E ok \in StoreOutcomes :
          /\ s3_objects' = IF ok THEN s3_objects \ {req[p].attachment_id}
                           ELSE s3_objects
          /\ failures_left' = IF ok THEN failures_left ELSE failures_left - 1
    /\ SetReq(p, [req[p] EXCEPT !.pc = "remove_attachment"])
    /\ UnchangedTables
    /\ UnchangedKeySide
    /\ UNCHANGED <<lists, issued, settings>>

\* delete_attachment, lines 309-313: remove_attachment_from_list
DeleteAttachmentRemove(p) ==
    /\ req[p].op = "delete_attachment"
    /\ req[p].pc = "remove_attachment"
    /\ \E ok \in StoreOutcomes :
          /\ IF ok
             THEN remove_attachment_from_list(req[p].list_id, req[p].household_id,
                                              req[p].attachment_id)
             ELSE UNCHANGED lists
          /\ failures_left' = IF ok THEN failures_left ELSE failures_left - 1
          /\ SetReq(p, IF ok THEN Respond(req[p], OK, [message |-> "Attachment deleted"])
                       ELSE Raise(req[p], ServerError))
    /\ UnchangedTables
    /\ UnchangedKeySide
    /\ UNCHANGED <<s3_objects, issued, settings>>

\* the ids of the attachments, in order
IdsOf(attachments) == [i \in 1..Len(attachments) |-> attachments[i].id]

\* list_attachments, lines 325-330
ListAttachments(p, list_id, household_id, caller) ==
    /\ IsIdle(p)
    /\ LET r == [Idle EXCEPT !.op = "list_attachments", !.list_id = list_id,
                             !.household_id = household_id, !.caller = caller]
           denied == verify_list_access(list_id, household_id, caller)
       IN  SetReq(p, IF denied # 0 THEN Raise(r, denied)
                     ELSE Respond(r, OK,
                            [attachments |->
                                IdsOf(ConfirmedOf(lists[list_id].attachments))]))
    /\ UnchangedTables
    /\ UnchangedHistory

\* a step of an attachment route in slot p
AttachmentStep(p) ==
    \/ \E l \in ListIds, h \in HouseholdIds, u \in AttachmentCallers, size \in UploadSizes :
          GetUploadUrlCheck(p, l, h, u, size)
    \/ GetUploadUrlAdd(p)
    \/ GetUploadUrlRemove(p)
    \/ \E l \in ListIds, h \in HouseholdIds, u \in AttachmentCallers, a \in AttachmentIds :
          \/ ConfirmUploadGetAttachment(p, l, h, u, a)
          \/ GetDownloadUrl(p, l, h, u, a)
          \/ DeleteAttachmentGetAttachment(p, l, h, u, a)
    \/ ConfirmUploadHeadObject(p)
    \/ ConfirmUploadRemove(p)
    \/ ConfirmUploadUpdateStatus(p)
    \/ DeleteAttachmentDeleteObject(p)
    \/ DeleteAttachmentRemove(p)
    \/ \E l \in ListIds, h \in HouseholdIds, u \in AttachmentCallers :
          ListAttachments(p, l, h, u)

\* the attachments of list l1 when the exploration starts
StoredAttachments ==
    [i \in StoredIds |-> [id |-> i,
                          size |-> IF i <= 5 THEN 1 ELSE MAX_FILE_SIZE,
                          status |-> "confirmed"]]

\* household h1 of owner o with list l1: either attachments are configured and
\* the list holds eight confirmed attachments, or no bucket is configured and
\* the list holds none
InitAttachments ==
    /\ households = [h \in {"h1"} |-> [owner_id |-> "o", members |-> <<"o">>]]
    /\ users = [u \in {"o", "c"} |->
                   [households |-> IF u = "o" THEN <<"h1">> ELSE <<>>]]
    /\ wrapped_keys = [h \in {} |-> EmptyMap]
    /\ user_keys = [u \in {} |-> NoKeyData]
    /\ invites = [i \in {} |-> NoInvite]
    /\ req = [p \in Slots |-> Idle]
    /\ last_writer = ""
    /\ writes_left = 0
    /\ key_writes_left = 0
    /\ failures_left = MaxAttachmentFailures
    /\ reads_fail = FALSE
    /\ issued = 0
    /\ \/ /\ settings = [ATTACHMENTS_BUCKET |-> "attachments"]
          /\ lists = [l \in {"l1"} |-> [household_id |-> "h1",
                                        attachments |-> StoredAttachments]]
          /\ s3_objects = StoredIds
       \/ /\ settings = [ATTACHMENTS_BUCKET |-> ""]
          /\ lists = [l \in {"l1"} |-> [household_id |-> "h1",
                                        attachments |-> <<>>]]
          /\ s3_objects = {}

NextAttachments ==
    \/ \E a \in AttachmentIds : ClientPutsObject(a)
    \/ \E p \in Slots : AttachmentStep(p) \/ Retire(p)

SpecAttachments == InitAttachments /\ [][NextAttachments]_vars

\* ---- SpecInvites: invite creation next to invite acceptance (routes/invites.py)
\* the addresses an InviteCreate may name
InviteEmails == {"a@x", "c@x"}
\* str(uuid.uuid4()) of create_invite: ids that no invite had before
NewInviteIds == <<"n1", "n2", "n3", "n4">>
\* the invites created so far
CreatedInvites == {i \in DOMAIN invites : \E k \in 1..Len(NewInviteIds) : NewInviteIds[k] = i}
NewInviteId == NewInviteIds[Cardinality(CreatedInvites) + 1]

\* database.get_user_by_email, lines 34-46: the user registered under exactly
\* this address; `except ClientError: return None`
get_user_by_email(email) ==
    LET found == {u \in DOMAIN users : Email(u) = email}
    IN  IF reads_fail \/ found = {} THEN None
        ELSE Some([user_id |-> CHOOSE u \in found : TRUE])

\* create_new_invite, lines 49-54: the household and the caller's membership
CreateInviteGetHousehold(p, household_id, caller, email) ==
    /\ IsIdle(p)
    /\ LET r == [Idle EXCEPT !.op = "create_new_invite", !.caller = caller,
                             !.household_id = household_id, !.email = email]
           household == get_household(household_id)
       IN  SetReq(p, IF household = None THEN Raise(r, NotFound)
                     ELSE IF ~InList(caller, TheValue(household).members)
                          THEN Raise(r, Forbidden)
                          ELSE [r EXCEPT !.pc = "get_user_by_email",
                                         !.members = TheValue(household).members])
    /\ UnchangedTables
    /\ UnchangedHistory

\* create_new_invite, lines 57-60: the user of the address is looked up and
\* searched in the members of the household read before
CreateInviteGetUser(p) ==
    /\ req[p].op = "create_new_invite"
    /\ req[p].pc = "get_user_by_email"
    /\ LET r == req[p]
           existing_user == get_user_by_email(r.email)
       IN  SetReq(p, IF existing_user # None
                        /\ InList(TheValue(existing_user).user_id, r.members)
                     THEN Raise(r, BadRequest)
                     ELSE [r EXCEPT !.pc = "get_invites"])
    /\ UnchangedTables
    /\ UnchangedHistory

\* create_new_invite, lines 63-66: the pending invites of the address
CreateInviteGetInvites(p) ==
    /\ req[p].op = "create_new_invite"
    /\ req[p].pc = "get_invites"
    /\ LET r == req[p]
           existing_invites == get_invites_by_email(r.email)
       IN  SetReq(p, IF \E k \in 1..Len(existing_invites) :
                           /\ invites[existing_invites[k]].household_id = r.household_id
                           /\ invites[existing_invites[k]].status = "pending"
                     THEN Raise(r, BadRequest)
                     ELSE [r EXCEPT !.pc = "create_invite"])
    /\ UnchangedTables
    /\ UnchangedHistory

\* create_new_invite, line 69, database.create_invite, lines 317-338: put_item
\* of a pending invite under a new id; a ClientError is not caught
CreateInviteCreate(p) ==
    /\ req[p].op = "create_new_invite"
    /\ req[p].pc = "create_invite"
    /\ Cardinality(CreatedInvites) < MaxCreatedInvites
    /\ \E success \in StoreOutcomes :
         /\ failures_left' = IF success THEN failures_left ELSE failures_left - 1
         /\ IF success
            THEN /\ invites' = DictSet(invites, NewInviteId,
                                       [household_id |-> req[p].household_id,
                                        email |-> req[p].email,
                                        status |-> "pending"])
                 /\ SetReq(p, [req[p] EXCEPT !.pc = "get_inviter",
                                             !.invite_id = NewInviteId])
            ELSE /\ UNCHANGED invites
                 /\ SetReq(p, Raise(req[p], ServerError))
    /\ UNCHANGED <<households, users, wrapped_keys, user_keys>>
    /\ UNCHANGED <<writes_left, key_writes_left, reads_fail, last_writer,
                   lists, s3_objects, issued, settings>>

\* create_new_invite, lines 72-84: the inviter is read for its name, the email
\* is sent and the invite returned
CreateInviteGetInviter(p) ==
    /\ req[p].op = "create_new_invite"
    /\ req[p].pc = "get_inviter"
    /\ SetReq(p, Respond(req[p], OK, [invite_id |-> req[p].invite_id]))
    /\ UnchangedTables
    /\ UnchangedHistory

\* a step of invite creation in slot p
CreateInviteStep(p) ==
    \/ \E h \in HouseholdIds, u \in Users, e \in InviteEmails :
          CreateInviteGetHousehold(p, h, u, e)
    \/ CreateInviteGetUser(p)
    \/ CreateInviteGetInvites(p)
    \/ CreateInviteCreate(p)
    \/ CreateInviteGetInviter(p)

\* a step of the acceptance route in slot p, for any invite in the table
AcceptRouteStep(p) ==
    \/ \E i \in DOMAIN invites, u \in Users : AcceptRouteGetInvite(p, i, u)
    \/ AcceptInviteGetInvite(p)
    \/ AddMemberGetHousehold(p)
    \/ AddMemberUpdate(p)
    \/ AddHouseholdGetUser(p)
    \/ AddHouseholdUpdate(p)
    \/ AcceptInviteUpdate(p)
    \/ AcceptRouteGetHousehold(p)

\* household h1 of owner o with member a; c is registered and no member; no
\* invite has been sent yet
InitInvites ==
    /\ households = [h \in {"h1"} |-> [owner_id |-> "o", members |-> <<"o", "a">>]]
    /\ users = [u \in Users |->
                   [households |-> IF u = "c" THEN <<>> ELSE <<"h1">>]]
    /\ wrapped_keys = [h \in {} |-> EmptyMap]
    /\ user_keys = [u \in {} |-> NoKeyData]
    /\ invites = [i \in {} |-> NoInvite]
    /\ req = [p \in Slots |-> Idle]
    /\ last_writer = ""
    /\ writes_left = 0
    /\ key_writes_left = 0
    /\ failures_left = 0
    /\ reads_fail = FALSE
    /\ lists = [l \in {} |-> [household_id |-> "", attachments |-> <<>>]]
    /\ s3_objects = {}
    /\ issued = 0
    /\ settings = [ATTACHMENTS_BUCKET |-> ""]

NextInvites ==
    \E p \in Slots : CreateInviteStep(p) \/ AcceptRouteStep(p) \/ Retire(p)

SpecInvites == InitInvites /\ [][NextInvites]_vars

\* ======================================================== claims C1 - C4
\* the wrapped-key map of household h1 as the handlers see it
VaultMap == OrEmptyDict(get_household_wrapped_keys("h1"))

\* the member list of household h1
Members == households["h1"].members

AddSucceeded(p) ==
    req[p].op = "add_member_key" /\ IsDone(p) /\ req[p].status = OK

SetSucceeded(p) ==
    req[p].op = "set_household_keys" /\ IsDone(p) /\ req[p].status = OK

RemoveSucceeded(p) ==
    req[p].op = "remove_member_key" /\ IsDone(p) /\ req[p].status = OK

\* two successful AddMemberKey calls p and q for two different new members
\* that both started from the same map, which holds the owner's entry
SameSnapshotAdds(p, q) ==
    /\ p # q
    /\ AddSucceeded(p)
    /\ AddSucceeded(q)
    /\ req[p].user_id # req[q].user_id
    /\ req[p].read_keys = req[q].read_keys
    /\ "o" \in DOMAIN req[q].read_keys
    /\ req[p].user_id \notin DOMAIN req[q].read_keys
    /\ req[q].user_id \notin DOMAIN req[q].read_keys

\* C1: when two AddMemberKey calls for two different new members start from
\* the same map holding the owner's entry and both have finished, the map is
\* the one the later writer wrote: the snapshot with the owner's entry plus
\* the later writer's addition; the addition of the first writer is lost.
C1_LostUpdate ==
    \A p, q \in Slots :
        (SameSnapshotAdds(p, q) /\ last_writer = q)
        => /\ VaultMap = DictSet(req[q].read_keys, req[q].user_id, req[q].wrapped_key)
           /\ VaultMap["o"] = req[q].read_keys["o"]
           /\ req[p].user_id \notin DOMAIN VaultMap

\* C1 witness: q held its snapshot while p wrote, then q wrote; p's member is
\* gone from the map although p reported success
C1_Witness ==
    \E p, q \in Slots :
        /\ SameSnapshotAdds(p, q)
        /\ last_writer = q
        /\ req[q].concurrent_write
        /\ ~req[p].concurrent_write
        /\ DOMAIN VaultMap = {"o", req[q].user_id}

\* two successful AddMemberKey calls for different targets, q having read
\* exactly the map p wrote
SerialAdds(p, q) ==
    /\ p # q
    /\ AddSucceeded(p)
    /\ AddSucceeded(q)
    /\ req[p].user_id # req[q].user_id
    /\ req[q].read_keys = req[p].keys

\* C2: when the second of two successful AddMemberKey calls for different
\* targets read the map the first one wrote and no write came after the
\* second, the map holds both new entries and every entry that was there
\* before the first call.
C2_SerialAddsKeepBoth ==
    \A p, q \in Slots :
        (SerialAdds(p, q) /\ last_writer = q)
        => /\ req[p].user_id \in DOMAIN VaultMap
           /\ VaultMap[req[p].user_id] = req[p].wrapped_key
           /\ req[q].user_id \in DOMAIN VaultMap
           /\ VaultMap[req[q].user_id] = req[q].wrapped_key
           /\ \A m \in (DOMAIN req[p].read_keys) \ {req[p].user_id, req[q].user_id} :
                 m \in DOMAIN VaultMap /\ VaultMap[m] = req[p].read_keys[m]

\* C2 witness: neither call overlapped a vault write, both members are new
C2_Witness ==
    \E p, q \in Slots :
        /\ SerialAdds(p, q)
        /\ last_writer = q
        /\ ~req[p].concurrent_write
        /\ ~req[q].concurrent_write
        /\ req[p].user_id \notin DOMAIN req[p].read_keys
        /\ req[q].user_id \notin DOMAIN req[q].read_keys
        /\ DOMAIN VaultMap = {"o", "a", "c"}

\* every wrapped key that some request of the model submits for member u
SubmittableFor(u) ==
    WrappedKeyValues(u) \cup {m[u] : m \in {x \in WrappedKeyMaps : u \in DOMAIN x}}

\* every stored value is one submitted for the member it is stored under
NoForeignValue == \A u \in DOMAIN VaultMap : VaultMap[u] \in SubmittableFor(u)

\* an entry that a step puts into the map, or changes, comes from the request
\* that writes in this step: from its own submission for that member, or from
\* the map it read
NewEntriesComeFromTheWriter ==
    \A u \in DOMAIN VaultMap' :
        (u \notin DOMAIN VaultMap \/ VaultMap'[u] # VaultMap[u])
        => \E p \in Slots :
              /\ req[p].pc = "update"
              /\ req'[p].pc = "done"
              /\ \/ /\ req[p].op = "add_member_key"
                    /\ req[p].user_id = u
                    /\ req[p].wrapped_key = VaultMap'[u]
                 \/ /\ req[p].op = "set_household_keys"
                    /\ u \in DOMAIN req[p].keys
                    /\ req[p].keys[u] = VaultMap'[u]
                 \/ /\ req[p].op \in {"add_member_key", "remove_member_key"}
                    /\ u \in DOMAIN req[p].read_keys
                    /\ req[p].read_keys[u] = VaultMap'[u]

\* the map a request holds as read is the stored map of the moment it read
ReadsTakeTheStoredMap ==
    \A p \in Slots :
        (req[p].pc = "get_keys" /\ req'[p].pc = "update")
        => req'[p].read_keys = VaultMap

\* C3: under every interleaving of AddMemberKey, RemoveMemberKey and
\* SetAllKeys no entry is corrupted, only dropped: the value stored for a
\* member is a wrapped key submitted for that same member, and it entered
\* the map through a request that submitted it or carried it in its copy.
C3_NoCorruption ==
    /\ []NoForeignValue
    /\ [][NewEntriesComeFromTheWriter /\ ReadsTakeTheStoredMap]_vars

\* C3 witness: a remove that overlapped an add wrote its stale copy back; the
\* add's entry is dropped, what is left is intact
C3_Witness ==
    \E p, q \in Slots :
        /\ AddSucceeded(p)
        /\ RemoveSucceeded(q)
        /\ last_writer = q
        /\ req[q].concurrent_write
        /\ req[p].user_id \notin DOMAIN VaultMap
        /\ req[p].user_id # req[q].user_id
        /\ DOMAIN VaultMap # {}
        /\ NoForeignValue

\* C4: a bulk replace that wrote last leaves no entry for the target of a
\* successful AddMemberKey that its map does not name, so a concurrent
\* incremental addition is discarded.
C4_BulkReplaceDiscardsAdd ==
    \A p, q \in Slots :
        (/\ SetSucceeded(p)
         /\ AddSucceeded(q)
         /\ req[q].user_id \notin DOMAIN req[p].keys
         /\ last_writer = p)
        => req[q].user_id \notin DOMAIN VaultMap

\* C4 witness: the add wrote while the bulk replace was in flight, both
\* report success and the add's target has no entry
C4_Witness ==
    \E p, q \in Slots :
        /\ SetSucceeded(p)
        /\ AddSucceeded(q)
        /\ req[p].concurrent_write
        /\ req[q].user_id \notin DOMAIN req[p].keys
        /\ req[q].user_id \notin DOMAIN req[q].read_keys
        /\ last_writer = p
        /\ req[q].user_id \notin DOMAIN VaultMap

\* ==================================================== claims C5 - C7, C10
\* slot p takes the first step of an AddMemberKey request (household lookup)
AddBegins(p) == IsIdle(p) /\ req'[p].op = "add_member_key"

\* slot p takes the step of an AddMemberKey request that reads the map
AddReadsKeys(p) ==
    /\ req[p].op = "add_member_key"
    /\ req[p].pc = "get_keys"
    /\ req'[p].pc # "get_keys"

\* slot p takes the step of an AddMemberKey request that writes the map
AddWrites(p) ==
    /\ req[p].op = "add_member_key"
    /\ req[p].pc = "update"
    /\ req'[p].pc = "done"

\* C5 as claimed: an AddMemberKey whose caller is a current member without a
\* vault entry fails with Forbidden whatever the target is (a current member
\* or not), and the vault is unchanged.
C5_ForbiddenForEveryTarget ==
    [][\A p \in Slots :
          /\ (AddBegins(p) /\ InList(req'[p].caller, Members)
                /\ req'[p].caller \notin DOMAIN VaultMap)
             => /\ req'[p].pc = "done" => req'[p].status = Forbidden
                /\ wrapped_keys' = wrapped_keys
          /\ (AddReadsKeys(p) /\ req[p].caller \notin DOMAIN VaultMap)
             => /\ req'[p].pc = "done"
                /\ req'[p].status = Forbidden
                /\ wrapped_keys' = wrapped_keys]_vars

\* C5 amended: an AddMemberKey whose caller is a current member without a
\* vault entry fails and leaves the vault unchanged: with 400 (target is not
\* a member) at the household lookup when the target is not a current
\* member, with Forbidden at the map lookup when the target is one.
C5_KeylessMemberCallerFails ==
    [][\A p \in Slots :
          /\ (AddBegins(p) /\ InList(req'[p].caller, Members)
                /\ req'[p].caller \notin DOMAIN VaultMap)
             => /\ wrapped_keys' = wrapped_keys
                /\ IF InList(req'[p].user_id, Members)
                   THEN req'[p].pc = "get_keys"
                   ELSE req'[p].pc = "done" /\ req'[p].status = BadRequest
          /\ (AddReadsKeys(p) /\ req[p].caller \notin DOMAIN VaultMap)
             => /\ req'[p].pc = "done"
                /\ req'[p].status = Forbidden
                /\ wrapped_keys' = wrapped_keys]_vars

\* C5 witness: both outcomes side by side: a member caller without entry was
\* refused with Forbidden for a member target and with 400 for a former member
C5_Witness ==
    \E p, q \in Slots :
        /\ req[p].op = "add_member_key" /\ IsDone(p)
        /\ req[q].op = "add_member_key" /\ IsDone(q)
        /\ InList(req[p].caller, Members) /\ InList(req[q].caller, Members)
        /\ req[p].caller \notin DOMAIN VaultMap
        /\ req[q].caller \notin DOMAIN VaultMap
        /\ InList(req[p].user_id, Members)
        /\ req[p].status = Forbidden
        /\ ~InList(req[q].user_id, Members)
        /\ req[q].status = BadRequest

\* C6: AddMemberKey gets past the household lookup only with caller and
\* target both current members, past the map lookup only with an entry for the
\* caller, and reports success only from its write; a successful write that
\* finds the map as it was read leaves the old map with the one entry for the
\* target set to the submitted key and every other entry unchanged.
C6_AddSucceedsOnlyIfAndSetsOneEntry ==
    [][\A p \in Slots :
          /\ (AddBegins(p) /\ req'[p].pc # "done")
             => /\ InList(req'[p].caller, Members)
                /\ InList(req'[p].user_id, Members)
          /\ (AddReadsKeys(p) /\ req'[p].pc # "done")
             => req[p].caller \in DOMAIN VaultMap
          /\ (req'[p].op = "add_member_key" /\ req'[p].pc = "done"
                /\ req[p].pc # "done" /\ req'[p].status = OK)
             => AddWrites(p)
          /\ (AddWrites(p) /\ req'[p].status = OK /\ req[p].read_keys = VaultMap)
             => /\ DOMAIN VaultMap' = (DOMAIN VaultMap) \cup {req[p].user_id}
                /\ VaultMap'[req[p].user_id] = req[p].wrapped_key
                /\ \A m \in (DOMAIN VaultMap) \ {req[p].user_id} :
                      VaultMap'[m] = VaultMap[m]]_vars

\* C6 witness: a member who is not the owner overwrote the entry of another
\* member, undisturbed by other writes; the rest of the map is as it was read
C6_Witness ==
    \E p \in Slots :
        /\ AddSucceeded(p)
        /\ last_writer = p
        /\ ~req[p].concurrent_write
        /\ req[p].caller # households["h1"].owner_id
        /\ req[p].user_id \in DOMAIN req[p].read_keys
        /\ req[p].read_keys[req[p].user_id] # req[p].wrapped_key
        /\ req[p].user_id # req[p].caller
        /\ VaultMap = DictSet(req[p].read_keys, req[p].user_id, req[p].wrapped_key)

\* C7: an AddMemberKey whose caller is not a current member is refused with
\* Forbidden at the household lookup, for every target and every stored map,
\* and the vault is unchanged.
C7_NonMemberCallerForbidden ==
    [][\A p \in Slots :
          (AddBegins(p) /\ ~InList(req'[p].caller, Members))
          => /\ req'[p].pc = "done"
             /\ req'[p].status = Forbidden
             /\ wrapped_keys' = wrapped_keys]_vars

\* C7 witness: a former member who has left for good, whose stale entry is
\* still in the map, was refused
C7_Witness ==
    \E p \in Slots :
        /\ req[p].op = "add_member_key" /\ IsDone(p)
        /\ req[p].status = Forbidden
        /\ ~InList(req[p].caller, Members)
        /\ ~InList("h1", users[req[p].caller].households)
        /\ req[p].caller \in DOMAIN VaultMap
        /\ VaultMap[req[p].caller] # ""

\* slot p takes the first step of a SetAllKeys request (household lookup)
SetBegins(p) == IsIdle(p) /\ req'[p].op = "set_household_keys"

\* C10: a SetAllKeys of the owner whose map names a user that is not a current
\* member is refused with 400 (invalid member) and the stored map is
\* unchanged.
C10_InvalidMemberLeavesMap ==
    [][\A p \in Slots :
          (/\ SetBegins(p)
           /\ req'[p].caller = households["h1"].owner_id
           /\ \E uid \in DOMAIN req'[p].keys : ~InList(uid, Members))
          => /\ req'[p].pc = "done"
             /\ req'[p].status = BadRequest
             /\ wrapped_keys' = wrapped_keys]_vars

\* C10 witness: the refused map also named the owner, a valid member, with a
\* key that differs from the stored one; the owner's stored entry is untouched
C10_Witness ==
    \E p \in Slots :
        /\ req[p].op = "set_household_keys" /\ IsDone(p)
        /\ req[p].status = BadRequest
        /\ req[p].caller = households["h1"].owner_id
        /\ \E uid \in DOMAIN req[p].keys : ~InList(uid, Members)
        /\ "o" \in DOMAIN req[p].keys
        /\ "o" \in DOMAIN VaultMap
        /\ VaultMap["o"] # req[p].keys["o"]


\* ======================================================== claims C8, C9
\* the stored key record of user u, None when there is none
KeyRecord(u) == get_user_keys(u)

\* slot p's SetupUserKeys performs its store write in this step and succeeds
SetupSucceeds(p) ==
    /\ req[p].op = "setup_user_keys"
    /\ req[p].pc = "update"
    /\ req'[p].pc = "done"
    /\ req'[p].status = OK

\* C8: for every user exactly one SetupUserKeys ever succeeds: a SetupUserKeys
\* succeeds only for a user who has no record with a non-empty public key
\* yet, so that every one after a successful setup is refused and the stored
\* record stays as the first setup wrote it.
C8_OneSetupEverSucceeds ==
    [][\A p \in Slots :
          SetupSucceeds(p) => ~HasPublicKey(KeyRecord(req[p].caller))]_vars

\* C9: once a user's stored public_key is set, no request changes it, two
\* overlapping SetupUserKeys of that user included.
C9_PublicKeyImmutable ==
    [][\A u \in Users :
          HasPublicKey(KeyRecord(u)) =>
              /\ HasPublicKey(KeyRecord(u)')
              /\ TheValue(KeyRecord(u)').public_key
                     = TheValue(KeyRecord(u)).public_key]_vars

\* ===================================================== claims C11 - C14
\* slot p takes the step of a SetAllKeys request that writes the map
SetWrites(p) ==
    /\ req[p].op = "set_household_keys"
    /\ req[p].pc = "update"
    /\ req'[p].pc = "done"

\* slot p takes the first step of a RemoveMemberKey request (household lookup)
RemoveBegins(p) == IsIdle(p) /\ req'[p].op = "remove_member_key"

\* slot p takes the step of a RemoveMemberKey request that reads the map
RemoveReadsKeys(p) ==
    /\ req[p].op = "remove_member_key"
    /\ req[p].pc = "get_keys"
    /\ req'[p].pc # "get_keys"

\* slot p takes the step of a RemoveMemberKey request that writes the map
RemoveWrites(p) ==
    /\ req[p].op = "remove_member_key"
    /\ req[p].pc = "update"
    /\ req'[p].pc = "done"

\* C11: a SetAllKeys of the owner whose map names current members only passes
\* the checks, reports success only from its store write, and the stored map
\* after that write is the submitted map exactly: no entry of the old map
\* survives unless the submitted map names it, the owner's entry and the case
\* of the empty map included.
C11_SetAllReplacesWholeMap ==
    [][\A p \in Slots :
          /\ (/\ SetBegins(p)
              /\ req'[p].caller = households["h1"].owner_id
              /\ \A uid \in DOMAIN req'[p].keys : InList(uid, Members))
             => req'[p].pc = "update"
          /\ (req'[p].op = "set_household_keys" /\ req'[p].pc = "done"
                /\ req[p].pc # "done" /\ req'[p].status = OK)
             => SetWrites(p)
          /\ (SetWrites(p) /\ req'[p].status = OK)
             => /\ "h1" \in DOMAIN wrapped_keys'
                /\ wrapped_keys'["h1"] = req[p].keys
                /\ VaultMap' = req[p].keys]_vars

\* C11 witness: the owner and a member were keyed by an earlier add, then the
\* owner replaced the map by the empty one; nothing is left, the owner's own
\* entry included
C11_Witness ==
    \E p, q \in Slots :
        /\ SetSucceeded(p)
        /\ last_writer = p
        /\ ~req[p].concurrent_write
        /\ req[p].keys = EmptyMap
        /\ AddSucceeded(q)
        /\ "o" \in DOMAIN req[q].keys
        /\ req[q].user_id # "o"
        /\ "h1" \in DOMAIN wrapped_keys
        /\ VaultMap = EmptyMap

\* C12: a SetAllKeys whose caller is not the owner of the household is refused
\* with Forbidden at the household lookup, whatever map it submits and whether
\* or not the caller is a member holding an entry; the vault is unchanged, and
\* only requests of the owner ever write.
C12_SetAllOwnerOnly ==
    [][\A p \in Slots :
          /\ (SetBegins(p) /\ req'[p].caller # households["h1"].owner_id)
             => /\ req'[p].pc = "done"
                /\ req'[p].status = Forbidden
                /\ wrapped_keys' = wrapped_keys
          /\ SetWrites(p) => req[p].caller = households["h1"].owner_id]_vars

\* C12 witness: a current member holding an entry submitted a map of current
\* members that differs from the stored one and was refused
C12_Witness ==
    \E p \in Slots :
        /\ req[p].op = "set_household_keys" /\ IsDone(p)
        /\ req[p].status = Forbidden
        /\ InList(req[p].caller, Members)
        /\ req[p].caller \in DOMAIN VaultMap
        /\ req[p].keys # EmptyMap
        /\ \A uid \in DOMAIN req[p].keys : InList(uid, Members)
        /\ VaultMap # req[p].keys

\* C13: a RemoveMemberKey whose caller is not the owner of the household is
\* refused with Forbidden at the household lookup, also when a keyed member
\* names its own entry; the vault is unchanged, and only requests of the owner
\* ever read or write the map for a removal.
C13_RemoveOwnerOnly ==
    [][\A p \in Slots :
          /\ (RemoveBegins(p) /\ req'[p].caller # households["h1"].owner_id)
             => /\ req'[p].pc = "done"
                /\ req'[p].status = Forbidden
                /\ wrapped_keys' = wrapped_keys
          /\ (RemoveReadsKeys(p) \/ RemoveWrites(p))
             => req[p].caller = households["h1"].owner_id]_vars

\* C13 witness: a current member with a non-empty entry asked to remove that
\* entry and was refused; the entry is still there
C13_Witness ==
    \E p \in Slots :
        /\ req[p].op = "remove_member_key" /\ IsDone(p)
        /\ req[p].status = Forbidden
        /\ req[p].user_id = req[p].caller
        /\ InList(req[p].caller, Members)
        /\ req[p].caller \in DOMAIN VaultMap
        /\ VaultMap[req[p].caller] # ""

\* a finished RemoveMemberKey of the owner that found no entry to remove
RemoveFoundNothing(q) ==
    /\ req[q].op = "remove_member_key" /\ IsDone(q)
    /\ req[q].caller = households["h1"].owner_id
    /\ req[q].user_id \notin DOMAIN req[q].read_keys

\* C14: a RemoveMemberKey of the owner for a member id without entry reports
\* success and writes nothing; so a second removal of the same id, reading
\* the map the first one wrote, reports success and the map stays the one the
\* first removal left.
C14_RemoveIdempotent ==
    /\ [](\A q \in Slots : RemoveFoundNothing(q) => req[q].status = OK)
    /\ [](\A p, q \in Slots :
            (/\ RemoveSucceeded(p) /\ last_writer = p
             /\ RemoveFoundNothing(q)
             /\ req[q].user_id = req[p].user_id
             /\ req[q].read_keys = req[p].keys)
            => VaultMap = DictDel(req[p].read_keys, req[p].user_id))
    /\ [][\A p \in Slots :
            (RemoveReadsKeys(p) /\ req[p].user_id \notin DOMAIN VaultMap)
            => /\ req'[p].pc = "done"
               /\ req'[p].status = OK
               /\ wrapped_keys' = wrapped_keys]_vars

\* C14 witness: the owner removed a member's entry, then removed it again;
\* both removals report success, other entries are left in the map
C14_Witness ==
    \E p, q \in Slots :
        /\ p # q
        /\ RemoveSucceeded(p) /\ last_writer = p
        /\ req[p].user_id \in DOMAIN req[p].read_keys
        /\ RemoveFoundNothing(q)
        /\ req[q].status = OK
        /\ req[q].user_id = req[p].user_id
        /\ req[q].read_keys = req[p].keys
        /\ ~req[q].concurrent_write
        /\ VaultMap = req[p].keys
        /\ VaultMap # EmptyMap

\* ===================================================== claims C15 - C17
\* slot p takes the first step of a GetMemberKey request (household lookup)
GetKeyBegins(p) == IsIdle(p) /\ req'[p].op = "get_household_key"

\* slot p takes the step of a GetMemberKey request that reads the map
GetKeyReads(p) ==
    /\ req[p].op = "get_household_key"
    /\ req[p].pc = "get_keys"
    /\ req'[p].pc = "done"

GetKeySucceeded(p) ==
    req[p].op = "get_household_key" /\ IsDone(p) /\ req[p].status = OK

\* C15: a successful write of the owner's RemoveMemberKey that finds the map
\* as it was read leaves the map without the named entry and with every other
\* entry unchanged; no step of a RemoveMemberKey touches the member list or
\* the users; a GetMemberKey of the named member, still a member, that reads
\* the map the removal left gets past the membership check and is answered
\* with success, has_key = false and no wrapped key.
C15_RemoveDropsEntryKeepsMember ==
    [][\A p \in Slots :
          /\ (/\ RemoveWrites(p) /\ req'[p].status = OK
              /\ req[p].read_keys = VaultMap)
             => /\ req[p].user_id \notin DOMAIN VaultMap'
                /\ DOMAIN VaultMap' = (DOMAIN VaultMap) \ {req[p].user_id}
                /\ \A m \in DOMAIN VaultMap' : VaultMap'[m] = VaultMap[m]
          /\ (RemoveBegins(p) \/ RemoveReadsKeys(p) \/ RemoveWrites(p))
             => /\ households' = households
                /\ users' = users
          /\ \A q \in Slots :
               (/\ RemoveSucceeded(p) /\ last_writer = p
                /\ InList(req[p].user_id, Members))
               => /\ (GetKeyBegins(q) /\ req'[q].caller = req[p].user_id)
                     => req'[q].pc = "get_keys"
                  /\ (GetKeyReads(q) /\ req[q].caller = req[p].user_id)
                     => /\ req'[q].status = OK
                        /\ req'[q].body.has_key = FALSE
                        /\ req'[q].body.wrapped_key = None]_vars

\* C15 witness: the owner removed the non-empty entry of a member who is not
\* the owner, other entries stayed; the member, still in the member list, then
\* read the map the removal left and was answered has_key = false
C15_Witness ==
    \E p, q \in Slots :
        /\ RemoveSucceeded(p) /\ last_writer = p
        /\ ~req[p].concurrent_write
        /\ req[p].user_id # households["h1"].owner_id
        /\ req[p].user_id \in DOMAIN req[p].read_keys
        /\ req[p].read_keys[req[p].user_id] # ""
        /\ req[p].keys # EmptyMap
        /\ VaultMap = req[p].keys
        /\ InList(req[p].user_id, Members)
        /\ GetKeySucceeded(q)
        /\ req[q].caller = req[p].user_id
        /\ req[q].read_keys = req[p].keys
        /\ req[q].body.has_key = FALSE
        /\ req[q].body.wrapped_key = None

\* C16: a GetMemberKey of user U1 that reads the map while a successful
\* AddMemberKey for U1 is the last vault write is answered with has_key = true
\* and with exactly the wrapped key that AddMemberKey submitted.
C16_AddThenGetRoundTrip ==
    [][\A p, q \in Slots :
          (/\ AddSucceeded(p) /\ last_writer = p
           /\ GetKeyReads(q) /\ req[q].caller = req[p].user_id)
          => /\ req'[q].status = OK
             /\ req'[q].body.has_key = TRUE
             /\ req'[q].body.wrapped_key = Some(req[p].wrapped_key)]_vars

\* C17: a GetMemberKey whose caller is a current member of the household gets
\* past the household lookup, and its map lookup always answers with success;
\* when the map has no entry for the caller (or there is no map) the answer is
\* has_key = false without a wrapped key; neither step changes a table.
C17_GetKeyNeverFailsForMember ==
    [][\A p \in Slots :
          /\ (GetKeyBegins(p) /\ InList(req'[p].caller, Members))
             => /\ req'[p].pc = "get_keys"
                /\ UnchangedTables
          /\ GetKeyReads(p)
             => /\ req'[p].status = OK
                /\ UnchangedTables
                /\ (req[p].caller \notin DOMAIN VaultMap)
                   => /\ req'[p].body.has_key = FALSE
                      /\ req'[p].body.wrapped_key = None]_vars

\* C17 witness: one member asked while nothing was stored, another asked while
\* the map held entries of others only; both were answered has_key = false
C17_Witness ==
    \E p, q \in Slots :
        /\ GetKeySucceeded(p)
        /\ req[p].read_keys = EmptyMap
        /\ req[p].body.has_key = FALSE
        /\ req[p].body.wrapped_key = None
        /\ GetKeySucceeded(q)
        /\ req[q].read_keys # EmptyMap
        /\ req[q].caller \notin DOMAIN req[q].read_keys
        /\ req[q].body.has_key = FALSE
        /\ req[q].body.wrapped_key = None

\* ============================================================ claim C18
\* the requests that change who is a member of a household
MembershipOps == {"leave_household", "accept_invite_route", "register_user"}

\* slot p takes a step of a leave, invite acceptance or registration request
MembershipStep(p) ==
    /\ req'[p].pc # req[p].pc
    /\ req[p].pc # "done"
    /\ req'[p].op \in MembershipOps

LeaveSucceeded(p) ==
    req[p].op = "leave_household" /\ IsDone(p) /\ req[p].status = OK

AcceptSucceeded(p) ==
    req[p].op = "accept_invite_route" /\ IsDone(p) /\ req[p].status = OK

\* C18: no step of a leave request, of an invite acceptance or of a
\* registration with its automatic acceptance of pending invites changes the
\* wrapped-key map of any household: membership changes create no entry and
\* delete none.
C18_MembershipLeavesVault ==
    [][(\E p \in Slots : MembershipStep(p)) => wrapped_keys' = wrapped_keys]_vars

\* C18 witness: a accepted its invite and is a member again, its old entry as
\* it was; c registered, which created its personal household and accepted its
\* invite, got no entry, and left again; the map is the one of the start
C18_Witness ==
    \E p, q \in Slots :
        /\ AcceptSucceeded(p) /\ req[p].caller = "a"
        /\ LeaveSucceeded(q) /\ req[q].caller = "c"
        /\ Members = <<"o", "a">>
        /\ invites["i1"].status = "accepted"
        /\ invites["i2"].status = "accepted"
        /\ \E h \in DOMAIN households : households[h].owner_id = "c"
        /\ VaultMap = [u \in {"o", "a"} |-> IF u = "o" THEN "wo1" ELSE "wa2"]

\* ======================================================= claims C19, C20
\* user u is not a member and this step changes or drops its vault entry
StaleEntryChanges(u) ==
    /\ u \in DOMAIN VaultMap
    /\ ~InList(u, Members)
    /\ (u \notin DOMAIN VaultMap' \/ VaultMap'[u] # VaultMap[u])

\* slot p's vault request writes in this step and succeeds
VaultWriteSucceeds(p) ==
    /\ (AddWrites(p) \/ RemoveWrites(p) \/ SetWrites(p))
    /\ req'[p].status = OK

\* C19 as claimed: the vault entry of a user who has left stays in the map
\* with its value until a RemoveMemberKey naming the user or a SetAllKeys
\* omitting the user succeeds; no other step changes or drops it.
C19_StaleEntryKeptUntilRevoked ==
    [][\A u \in Users :
          StaleEntryChanges(u)
          => \E p \in Slots :
                /\ VaultWriteSucceeds(p)
                /\ \/ RemoveWrites(p) /\ req[p].user_id = u
                   \/ SetWrites(p) /\ u \notin DOMAIN req[p].keys]_vars

\* C19 amended: the vault entry of a user who has left stays in the map with
\* its value until a vault request writes successfully, and that request is a
\* RemoveMemberKey naming the user, a SetAllKeys omitting the user, an
\* AddMemberKey or SetAllKeys naming the user (it passed its membership check
\* before the user left), or an AddMemberKey or RemoveMemberKey for somebody
\* else that overlapped another vault write and writes back a copy of the map
\* in which the entry is missing or different.  Leaving itself changes nothing.
C19_StaleEntryKeptUntilVaultWrite ==
    [][\A u \in Users :
          StaleEntryChanges(u)
          => \E p \in Slots :
                /\ VaultWriteSucceeds(p)
                /\ \/ RemoveWrites(p) /\ req[p].user_id = u
                   \/ SetWrites(p) /\ u \notin DOMAIN req[p].keys
                   \/ /\ SetWrites(p) /\ u \in DOMAIN req[p].keys
                      /\ VaultMap'[u] = req[p].keys[u]
                   \/ /\ AddWrites(p) /\ req[p].user_id = u
                      /\ VaultMap'[u] = req[p].wrapped_key
                   \/ /\ AddWrites(p) \/ RemoveWrites(p)
                      /\ req[p].user_id # u
                      /\ req[p].read_keys # VaultMap
                      /\ IF u \in DOMAIN req[p].read_keys
                         THEN /\ u \in DOMAIN VaultMap'
                              /\ VaultMap'[u] = req[p].read_keys[u]
                              /\ req[p].read_keys[u] # VaultMap[u]
                         ELSE u \notin DOMAIN VaultMap']_vars

\* C19 witness: a keyed member who is not the owner has left for good and its
\* non-empty entry is still in the map, while a current member has no entry:
\* the key set is neither a subset nor a superset of the member set
C19_Witness ==
    \E p \in Slots :
        /\ LeaveSucceeded(p)
        /\ req[p].caller # households["h1"].owner_id
        /\ ~InList(req[p].caller, Members)
        /\ req[p].caller \in DOMAIN VaultMap
        /\ VaultMap[req[p].caller] # ""
        /\ \E m \in Users : InList(m, Members) /\ m \notin DOMAIN VaultMap
        /\ \E m \in Users : InList(m, Members) /\ m \in DOMAIN VaultMap

\* C20: whenever a successful AddMemberKey or SetAllKeys writes an entry for
\* a user id, that user is a member of the household at the moment of the
\* write: no user goes from NotMember to keyed.
C20_EntriesWrittenForMembersOnly ==
    [][\A p \in Slots :
          /\ (AddWrites(p) /\ req'[p].status = OK)
             => InList(req[p].user_id, Members)
          /\ (SetWrites(p) /\ req'[p].status = OK)
             => \A uid \in DOMAIN req[p].keys : InList(uid, Members)]_vars

\* ============================================================ claim C21
\* the requests of the four vault handlers
VaultOps ==
    {"get_household_key", "set_household_keys", "add_member_key",
     "remove_member_key"}

\* a vault handler starts in slot p while the store's reads fail: its
\* get_household call is the read that fails
HouseholdReadFails(p) ==
    reads_fail /\ IsIdle(p) /\ req'[p].op \in VaultOps

\* the update_household_wrapped_keys call of the request in slot p fails
VaultWriteFails(p) ==
    /\ req[p].op \in VaultOps
    /\ req[p].pc = "update"
    /\ req'[p].pc = "done"
    /\ req'[p].status # OK

\* C21: a vault request whose household read fails, or whose map write fails,
\* ends with a service error (never with success, NotFound or Forbidden), and
\* the step leaves the vault map and every user key record unchanged.
C21_StoreFailureIsServiceError ==
    [][\A p \in Slots :
          (HouseholdReadFails(p) \/ VaultWriteFails(p))
          => /\ req'[p].pc = "done"
             /\ req'[p].status = ServerError
             /\ VaultMap' = VaultMap
             /\ user_keys' = user_keys]_vars

\* ============================================================ claim C22
\* the vault request in slot p takes a step
VaultRequestSteps(p) ==
    req'[p].pc # req[p].pc /\ req'[p].op \in VaultOps

\* C22: no step of a GetMemberKey, SetAllKeys, AddMemberKey or RemoveMemberKey
\* request, whether the request succeeds or fails, changes the household
\* record (owner_id, members), the users table or any user's key record.
C22_VaultLeavesMembersAndUserKeys ==
    [][\A p \in Slots :
          VaultRequestSteps(p)
          => /\ households' = households
             /\ users' = users
             /\ user_keys' = user_keys]_vars

\* C22 witness: a RemoveMemberKey for member a succeeded and an AddMemberKey
\* failed; a is still a member, o is still the owner, and the key records of
\* o and a are the ones they stored
C22_Witness ==
    \E p, q \in Slots :
        /\ RemoveSucceeded(p) /\ req[p].user_id = "a"
        /\ "a" \in DOMAIN req[p].read_keys
        /\ "a" \notin DOMAIN VaultMap
        /\ req[q].op = "add_member_key" /\ IsDone(q) /\ req[q].status # OK
        /\ households["h1"] = [owner_id |-> "o", members |-> <<"o", "a", "c">>]
        /\ user_keys = [u \in {"o", "a"} |-> KeyRecordOf(u)]

\* ============================================================ claim C23
\* the SetupUserKeys request in slot p has reported success
SetupSucceeded(p) ==
    req[p].op = "setup_user_keys" /\ IsDone(p) /\ req[p].status = OK

\* slot p takes the one step of a GetOwnKeys request
GetOwnKeysRuns(p) == IsIdle(p) /\ req'[p].op = "get_user_encryption_keys"

\* C23: a GetOwnKeys of user u issued after a SetupUserKeys of u reported
\* success (with a non-empty public key) is answered with exactly the four
\* values that setup submitted; a GetOwnKeys of a user without a record or
\* with an empty public key fails with 404; GetOwnKeys changes no table.
C23_SetupThenGetOwnKeysRoundTrip ==
    [][\A p, q \in Slots :
          GetOwnKeysRuns(q)
          => /\ UnchangedTables
             /\ ~HasPublicKey(KeyRecord(req'[q].caller))
                => req'[q].status = NotFound
             /\ (/\ SetupSucceeded(p)
                 /\ req[p].caller = req'[q].caller
                 /\ req[p].key_data.public_key # "")
                => /\ req'[q].status = OK
                   /\ req'[q].body.public_key = req[p].key_data.public_key
                   /\ req'[q].body.encrypted_private_key
                          = req[p].key_data.encrypted_private_key
                   /\ req'[q].body.salt = req[p].key_data.private_key_salt
                   /\ req'[q].body.version = req[p].key_data.encryption_version]_vars

\* ============================================================ claim C24
\* the requests of the four user key handlers
RegistryOps ==
    {"setup_user_keys", "get_user_encryption_keys", "get_user_key_status",
     "get_user_public_key"}

\* the user key request in slot p is answered in this step
RegistryResponds(p) ==
    req[p].pc # "done" /\ req'[p].pc = "done" /\ req'[p].op \in RegistryOps

\* C24: the answer of a user key request carries key material of the caller's
\* own record or of the caller's own submission only, with one exception: a
\* successful GetPublicKey answers the target's user id and stored public key
\* and nothing else. No answer carries the encrypted private key or the salt
\* of another user; a refusal carries a detail only.
C24_OnlyPublicHalfDisclosed ==
    [][\A p \in Slots :
          RegistryResponds(p)
          => LET r == req'[p]
                 own == KeyRecord(r.caller)
             IN  /\ r.status # OK => DOMAIN r.body = {"detail"}
                 /\ (r.status = OK /\ r.op = "get_user_public_key")
                    => r.body = [user_id |-> r.user_id,
                                 public_key |->
                                     TheValue(KeyRecord(r.user_id)).public_key]
                 /\ (r.status = OK /\ r.op = "get_user_encryption_keys")
                    => r.body = [public_key |-> TheValue(own).public_key,
                                 encrypted_private_key |->
                                     TheValue(own).encrypted_private_key,
                                 salt |-> TheValue(own).private_key_salt,
                                 version |-> TheValue(own).encryption_version,
                                 has_keys |-> TRUE]
                 /\ (r.status = OK /\ r.op = "get_user_key_status")
                    => /\ DOMAIN r.body = {"has_encryption_setup", "public_key"}
                       /\ r.body.public_key \in
                              {None} \cup
                              (IF own = None THEN {}
                               ELSE {Some(TheValue(own).public_key)})
                 /\ (r.status = OK /\ r.op = "setup_user_keys")
                    => r.body = [public_key |-> r.key_data.public_key,
                                 encrypted_private_key |->
                                     r.key_data.encrypted_private_key,
                                 salt |-> r.key_data.private_key_salt,
                                 version |-> r.key_data.encryption_version,
                                 has_keys |-> TRUE]]_vars

\* C24 witness: o has stored a record with a private half; a, who has no
\* record, asked for o's public key and got the user id and the public key,
\* and a's GetOwnKeys was refused
C24_Witness ==
    \E p, q \in Slots :
        /\ req[p].op = "get_user_public_key" /\ IsDone(p) /\ req[p].status = OK
        /\ req[p].caller = "a" /\ req[p].user_id = "o"
        /\ KeyRecord("o") # None /\ KeyRecord("a") = None
        /\ TheValue(KeyRecord("o")).encrypted_private_key = "e2"
        /\ req[p].body = [user_id |-> "o",
                          public_key |-> TheValue(KeyRecord("o")).public_key]
        /\ req[q].op = "get_user_encryption_keys" /\ IsDone(q)
        /\ req[q].caller = "a" /\ req[q].status = NotFound

\* ============================================================ claim C25
\* slot p takes the first step of a GetPublicKey request (user lookup)
GetPublicKeyBegins(p) == IsIdle(p) /\ req'[p].op = "get_user_public_key"

\* slot p takes the second step of a GetPublicKey request (key record lookup)
GetPublicKeyReads(p) ==
    /\ req[p].op = "get_user_public_key"
    /\ req[p].pc = "get_keys"
    /\ req'[p].pc = "done"

\* C25: GetPublicKey(target) fails with 404 "User not found" when the target
\* has no user record; for an existing target it goes on to the key record,
\* whoever the caller is (no shared household is required), and fails with
\* 404 "User has not set up encryption" when there is no record or the public
\* key is empty, and otherwise answers the stored public key; it changes no
\* table.
C25_GetPublicKeyOutcomes ==
    [][\A p \in Slots :
          /\ GetPublicKeyBegins(p)
             => /\ UnchangedTables
                /\ IF req'[p].user_id \notin DOMAIN users
                   THEN /\ req'[p].pc = "done"
                        /\ req'[p].status = NotFound
                        /\ req'[p].body.detail = "User not found"
                   ELSE req'[p].pc = "get_keys"
          /\ GetPublicKeyReads(p)
             => /\ UnchangedTables
                /\ IF ~HasPublicKey(KeyRecord(req[p].user_id))
                   THEN /\ req'[p].status = NotFound
                        /\ req'[p].body.detail = "User has not set up encryption"
                   ELSE /\ req'[p].status = OK
                        /\ req'[p].body.user_id = req[p].user_id
                        /\ req'[p].body.public_key
                               = user_keys[req[p].user_id].public_key]_vars

\* C25 witness: c, who has no user record and shares no household with o, got
\* the public key that o's setup stored; a GetPublicKey for a, who is
\* registered but has no usable key record, was refused with the other detail
C25_Witness ==
    \E p, q \in Slots :
        /\ req[p].op = "get_user_public_key" /\ IsDone(p) /\ req[p].status = OK
        /\ req[p].caller = "c" /\ req[p].user_id = "o"
        /\ "c" \notin DOMAIN users
        /\ HasPublicKey(KeyRecord("o"))
        /\ req[p].body.public_key = user_keys["o"].public_key
        /\ req[q].op = "get_user_public_key" /\ IsDone(q)
        /\ req[q].user_id = "a" /\ "a" \in DOMAIN users
        /\ ~HasPublicKey(KeyRecord("a"))
        /\ req[q].status = NotFound
        /\ req[q].body.detail = "User has not set up encryption"

\* ============================================================ claim C26
\* slot p takes the one step of a GetKeyStatus request
GetKeyStatusRuns(p) == IsIdle(p) /\ req'[p].op = "get_user_key_status"

\* C26: GetKeyStatus always answers with success and changes no table; it
\* answers has_encryption_setup = true together with the stored public key
\* exactly when the caller has a key record with a non-empty public key, and
\* has_encryption_setup = false without a public key otherwise, also for a
\* caller who has no user record.
C26_KeyStatusReflectsRecord ==
    [][\A p \in Slots :
          GetKeyStatusRuns(p)
          => LET own == KeyRecord(req'[p].caller) IN
             /\ req'[p].pc = "done"
             /\ req'[p].status = OK
             /\ UnchangedTables
             /\ req'[p].body.has_encryption_setup
                    = (own # None /\ TheValue(own).public_key # "")
             /\ req'[p].body.public_key
                    = IF own # None /\ TheValue(own).public_key # ""
                      THEN Some(TheValue(own).public_key) ELSE None]_vars

\* C26 witness: c, who has no user record, was answered "not set up"; o, whose
\* record holds a non-empty public key, was answered with that key
C26_Witness ==
    \E p, q \in Slots :
        /\ req[p].op = "get_user_key_status" /\ IsDone(p)
        /\ req[p].caller = "c" /\ "c" \notin DOMAIN users
        /\ req[p].status = OK
        /\ req[p].body.has_encryption_setup = FALSE
        /\ req[p].body.public_key = None
        /\ req[q].op = "get_user_key_status" /\ IsDone(q)
        /\ req[q].caller = "o" /\ HasPublicKey(KeyRecord("o"))
        /\ req[q].status = OK
        /\ req[q].body.has_encryption_setup = TRUE
        /\ req[q].body.public_key = Some(user_keys["o"].public_key)

\* ============================================================ claim C27
\* a RemoveMemberKey for user u has reported success, u has no entry, and this
\* step puts an entry for u into the map
RevokedEntryReappears(u) ==
    /\ \E q \in Slots : RemoveSucceeded(q) /\ req[q].user_id = u
    /\ u \notin DOMAIN VaultMap
    /\ u \in DOMAIN VaultMap'

\* C27 as claimed: after a RemoveMemberKey for X reported success, an entry
\* for X comes back only through a successful AddMemberKey targeting X or a
\* successful SetAllKeys naming X; an AddMemberKey for another target never
\* brings it back.
C27_RevocationDurable ==
    [][\A u \in Users :
          RevokedEntryReappears(u)
          => \E p \in Slots :
                /\ VaultWriteSucceeds(p)
                /\ \/ AddWrites(p) /\ req[p].user_id = u
                   \/ SetWrites(p) /\ u \in DOMAIN req[p].keys]_vars

\* C27 amended: after a RemoveMemberKey for X reported success, an entry for X
\* comes back only through a successful vault write, which is an AddMemberKey
\* targeting X, a SetAllKeys naming X, or an AddMemberKey or RemoveMemberKey
\* for another user that read the map while X's entry was still in it and
\* writes that copy back (X's entry returns with the value it had when the map
\* was read); a request for another user that read the map after the removal
\* never brings the entry back.
C27_RevocationUndoneByStaleCopy ==
    [][\A u \in Users :
          RevokedEntryReappears(u)
          => \E p \in Slots :
                /\ VaultWriteSucceeds(p)
                /\ \/ /\ AddWrites(p) /\ req[p].user_id = u
                      /\ VaultMap'[u] = req[p].wrapped_key
                   \/ /\ SetWrites(p) /\ u \in DOMAIN req[p].keys
                      /\ VaultMap'[u] = req[p].keys[u]
                   \/ /\ AddWrites(p) \/ RemoveWrites(p)
                      /\ req[p].user_id # u
                      /\ req[p].concurrent_write
                      /\ u \in DOMAIN req[p].read_keys
                      /\ VaultMap'[u] = req[p].read_keys[u]]_vars

\* C27 witness: a RemoveMemberKey for X and an AddMemberKey for another target
\* read the same map, which held X's entry; the removal wrote first and
\* reported success, the AddMemberKey wrote last, and X's entry is back
C27_Witness ==
    \E p, q \in Slots :
        /\ RemoveSucceeded(q)
        /\ req[q].user_id \in DOMAIN req[q].read_keys
        /\ AddSucceeded(p)
        /\ req[p].user_id # req[q].user_id
        /\ req[p].read_keys = req[q].read_keys
        /\ req[p].concurrent_write
        /\ last_writer = p
        /\ req[q].user_id \in DOMAIN VaultMap
        /\ VaultMap[req[q].user_id] = req[q].read_keys[req[q].user_id]

\* ============================================================ claim C28
\* the vault holds no entry and this step puts the first one in
FirstEntryWritten == VaultMap = EmptyMap /\ VaultMap' # EmptyMap

\* C28 as claimed: while the vault of the household is empty, an AddMemberKey
\* of a member caller (the owner included) fails with Forbidden, and the first
\* entry is put into an empty vault by a successful SetAllKeys of the owner
\* only.
C28_EmptyVaultBootstrapBySetAllOnly ==
    [][/\ \A p \in Slots :
            /\ (/\ AddBegins(p) /\ VaultMap = EmptyMap
                /\ InList(req'[p].caller, Members)
                /\ req'[p].pc = "done")
               => req'[p].status = Forbidden
            /\ (AddReadsKeys(p) /\ VaultMap = EmptyMap)
               => req'[p].pc = "done" /\ req'[p].status = Forbidden
       /\ FirstEntryWritten
          => \E p \in Slots :
                /\ SetWrites(p) /\ req'[p].status = OK
                /\ req[p].caller = households["h1"].owner_id]_vars

\* C28 amended: an AddMemberKey that reads the map while the vault is empty
\* fails with Forbidden, whoever the caller is; before that, at the household
\* lookup, a caller who is not a member fails with Forbidden and a member
\* caller whose target is not a member fails with 400.  The first entry is put
\* into an empty vault by a successful SetAllKeys of the owner, or by an
\* AddMemberKey or RemoveMemberKey that read the map before the vault was
\* emptied and writes its copy back.
C28_EmptyVaultBootstrap ==
    [][/\ \A p \in Slots :
            /\ (AddBegins(p) /\ VaultMap = EmptyMap)
               => /\ wrapped_keys' = wrapped_keys
                  /\ IF ~InList(req'[p].caller, Members)
                     THEN req'[p].pc = "done" /\ req'[p].status = Forbidden
                     ELSE IF ~InList(req'[p].user_id, Members)
                          THEN /\ req'[p].pc = "done"
                               /\ req'[p].status = BadRequest
                          ELSE req'[p].pc = "get_keys"
            /\ (AddReadsKeys(p) /\ VaultMap = EmptyMap)
               => /\ req'[p].pc = "done"
                  /\ req'[p].status = Forbidden
                  /\ wrapped_keys' = wrapped_keys
       /\ FirstEntryWritten
          => \E p \in Slots :
                /\ VaultWriteSucceeds(p)
                /\ \/ /\ SetWrites(p)
                      /\ req[p].caller = households["h1"].owner_id
                      /\ VaultMap' = req[p].keys
                   \/ /\ AddWrites(p) \/ RemoveWrites(p)
                      /\ req[p].concurrent_write
                      /\ req[p].read_keys # EmptyMap
                      /\ VaultMap' = req[p].keys]_vars

\* C28 witness: the owner's AddMemberKey read the map while it held the
\* owner's entry, a SetAllKeys with the empty map then emptied the vault, and
\* the AddMemberKey wrote the first entries into the empty vault
C28_Witness ==
    \E p, q \in Slots :
        /\ SetSucceeded(q) /\ req[q].keys = EmptyMap
        /\ AddSucceeded(p)
        /\ req[p].caller = households["h1"].owner_id
        /\ req[p].read_keys # EmptyMap
        /\ req[p].concurrent_write
        /\ last_writer = p
        /\ VaultMap = req[p].keys
        /\ VaultMap # EmptyMap

\* ============================================================ claim C29
\* C29: a GetMemberKey whose caller is not in the member set at the household
\* lookup fails there with Forbidden and its answer carries no key material,
\* also when the map still holds an entry of that caller; only a caller who
\* passed that check gets to the map, and the wrapped key answered is the
\* value stored under the caller's own id (none when there is no entry).
C29_GetKeyOwnEntryForMembersOnly ==
    [][\A p \in Slots :
          /\ (GetKeyBegins(p) /\ ~InList(req'[p].caller, Members))
             => /\ req'[p].pc = "done"
                /\ req'[p].status = Forbidden
                /\ DOMAIN req'[p].body = {"detail"}
          /\ (GetKeyBegins(p) /\ req'[p].pc = "get_keys")
             => InList(req'[p].caller, Members)
          /\ GetKeyReads(p)
             => req'[p].body.wrapped_key
                    = IF req[p].caller \in DOMAIN VaultMap
                      THEN Some(VaultMap[req[p].caller]) ELSE None]_vars

\* C29 witness: a former member whose non-empty entry is still in the map was
\* refused with Forbidden, and a current member was answered its own entry
\* while the map holds a different key under another id
C29_Witness ==
    \E p, q \in Slots :
        /\ req[p].op = "get_household_key" /\ IsDone(p)
        /\ ~InList(req[p].caller, Members)
        /\ req[p].caller \in DOMAIN VaultMap
        /\ VaultMap[req[p].caller] # ""
        /\ req[p].status = Forbidden
        /\ DOMAIN req[p].body = {"detail"}
        /\ GetKeySucceeded(q)
        /\ InList(req[q].caller, Members)
        /\ req[q].read_keys = VaultMap
        /\ req[q].body.wrapped_key = Some(VaultMap[req[q].caller])
        /\ VaultMap[req[q].caller] # VaultMap[req[p].caller]

\* ============================================================ claim C30
\* C30: the two notions of "holds a key" agree for a current member m: a
\* GetMemberKey of m that reads the map answers has_key = true exactly when
\* the map has an entry for m, whatever its value, and an AddMemberKey of
\* caller m that reads the map passes the caller check exactly when the map
\* has an entry for m.
C30_HasKeyAgreesWithCallerCheck ==
    [][\A p \in Slots :
          /\ (GetKeyReads(p) /\ InList(req[p].caller, Members))
             => /\ req'[p].status = OK
                /\ req'[p].body.has_key = (req[p].caller \in DOMAIN VaultMap)
          /\ (AddReadsKeys(p) /\ InList(req[p].caller, Members))
             => (req'[p].pc = "update") = (req[p].caller \in DOMAIN VaultMap)]_vars

\* ============================================================ claim C31
\* slot p takes the first step of a leave request (household lookup)
LeaveBegins(p) == IsIdle(p) /\ req'[p].op = "leave_household"

\* slot p's registration stores the personal household in this step
HouseholdCreated(p) ==
    /\ req[p].op = "register_user"
    /\ req[p].pc = "create_household"
    /\ req'[p].pc # "create_household"

\* the owner of every household is in its member list
OwnerIsMember ==
    \A h \in DOMAIN households :
        InList(households[h].owner_id, households[h].members)

\* C31: in every reachable state the owner of every household is in its
\* member list; creating a household stores the creator as owner and as the
\* only member; a leave request of the owner is rejected with 400 and changes
\* no table.
C31_OwnerAlwaysMember ==
    /\ []OwnerIsMember
    /\ [][\A p \in Slots :
            /\ (/\ LeaveBegins(p)
                /\ req'[p].household_id \in DOMAIN households
                /\ req'[p].caller = households[req'[p].household_id].owner_id)
               => /\ req'[p].pc = "done"
                  /\ req'[p].status = BadRequest
                  /\ UnchangedTables
            /\ HouseholdCreated(p)
               => /\ req'[p].household_id \notin DOMAIN households
                  /\ households'[req'[p].household_id]
                         = [owner_id |-> req[p].caller,
                            members |-> <<req[p].caller>>]]_vars

\* C31 witness: the owner's leave was rejected, a member who had joined by
\* invite has left again, and a household created at registration has its
\* creator as owner and only member
C31_Witness ==
    \E p, q \in Slots :
        /\ req[p].op = "leave_household" /\ IsDone(p)
        /\ req[p].caller = households["h1"].owner_id
        /\ req[p].status = BadRequest
        /\ LeaveSucceeded(q)
        /\ ~InList(req[q].caller, households["h1"].members)
        /\ InList("o", households["h1"].members)
        /\ \E h \in DOMAIN households :
              households[h] = [owner_id |-> "c", members |-> <<"c">>]

\* ============================================================ claim C32
\* [x for x in seq] names no element twice
NoDuplicates(seq) ==
    \A i, j \in 1..Len(seq) : seq[i] = seq[j] => i = j

\* C32: in every reachable state the member list of every household names
\* each user at most once and the households list of every user names each
\* household at most once.
C32_NoDuplicateMembers ==
    /\ \A h \in DOMAIN households : NoDuplicates(households[h].members)
    /\ \A u \in DOMAIN users : NoDuplicates(users[u].households)

\* ============================================================ claim C33
\* slot p's invite acceptance route reports success in this step
AcceptReportsSuccess(p) ==
    /\ req[p].op = "accept_invite_route"
    /\ req[p].pc = "route_get_household"
    /\ req'[p].pc = "done"
    /\ req'[p].status = OK

\* the accept_invite call of the request in slot p marks its invite accepted
InviteMarkedAccepted(p) ==
    /\ req[p].pc = "accept_update_invite"
    /\ req'[p].pc # "accept_update_invite"
    /\ invites' # invites

\* C33: when the invite acceptance route reports success, the accepting user
\* is in the member list of the invite's household and the invite's status is
\* "accepted"; an invite is marked accepted only while its status is
\* "pending", so no invite is accepted twice.
C33_AcceptedMeansMember ==
    [][\A p \in Slots :
          /\ AcceptReportsSuccess(p)
             => /\ InList(req[p].caller,
                          households[invites[req[p].invite_id].household_id].members)
                /\ invites[req[p].invite_id].status = "accepted"
          /\ InviteMarkedAccepted(p)
             => invites[req[p].invite_id].status = "pending"]_vars

\* ============================================================ claim C34
\* user m is not in the member list of household h and this step puts m in
Joins(h, m) ==
    /\ InList(m, households'[h].members)
    /\ h \in DOMAIN households => ~InList(m, households[h].members)

\* the add_member_to_household call of the request in slot p appends its
\* caller to the member list
MemberAppended(p) ==
    /\ req[p].pc = "add_member_update"
    /\ households' # households

\* invite i is for household h and addressed to user m, letter case aside
AddressedTo(i, h, m) ==
    /\ i \in DOMAIN invites
    /\ invites[i].household_id = h
    /\ Lower(invites[i].email) = Lower(Email(m))

\* C34: a user enters the member list of a household only as its creator, or
\* by the append of a request that is accepting an invite for that household
\* addressed to the user's own email (letter case aside), by the route or by
\* registration, or by the write of a leave request that read the list while
\* the user was a member; every member who is not the owner has an invite
\* for the household addressed to its own email.
C34_MembersByCreationOrInvite ==
    /\ [](\A h \in DOMAIN households : \A m \in Users :
             (InList(m, households[h].members) /\ m # households[h].owner_id)
             => \E i \in DOMAIN invites : AddressedTo(i, h, m))
    /\ [][\A h \in DOMAIN households' : \A m \in Users :
            Joins(h, m)
            => \E p \in Slots :
                  \/ /\ HouseholdCreated(p)
                     /\ req'[p].household_id = h
                     /\ req[p].caller = m
                     /\ households'[h].owner_id = m
                  \/ /\ MemberAppended(p)
                     /\ req[p].caller = m
                     /\ req[p].household_id = h
                     /\ AddressedTo(req[p].invite_id, h, m)
                  \/ /\ req[p].op = "leave_household"
                     /\ req[p].pc = "update_household"
                     /\ req[p].household_id = h
                     /\ InList(m, req[p].members)]_vars

\* C34 witness: c joined h1 at registration through the invite sent to its
\* address, a joined through the route with the invite sent to "A@x", and an
\* acceptance of c's invite by a was refused with Forbidden
C34_Witness ==
    \E p, q \in Slots :
        /\ InList("c", households["h1"].members)
        /\ InList("a", households["h1"].members)
        /\ invites["i1"].status = "accepted"
        /\ req[p].op = "accept_invite_route" /\ IsDone(p) /\ req[p].status = OK
        /\ req[p].caller = "a" /\ req[p].invite_id = "i2"
        /\ invites["i2"].email # Email("a")
        /\ req[q].op = "accept_invite_route" /\ IsDone(q)
        /\ req[q].invite_id = "i1" /\ req[q].caller = "a"
        /\ req[q].status \in {Forbidden, BadRequest}

\* ============================================================ claim C35
\* slot p's leave request writes the member list in this step
LeaveWrites(p) ==
    /\ req[p].op = "leave_household"
    /\ req[p].pc = "update_household"
    /\ req'[p].pc # "update_household"

\* C35: the write of a leave request takes exactly the leaving user out of
\* the member list as it is when the write lands: every other member of that
\* moment stays a member, and nobody who is not a member at that moment is
\* put in.
C35_LeaveRemovesOnlyLeaver ==
    [][\A p \in Slots :
          LeaveWrites(p)
          => households'[req[p].household_id].members
                 = ListWithout(households[req[p].household_id].members,
                               req[p].caller)]_vars

\* ============================================================ claim C36
\* C36: attachment limits hold in every reachable state: whatever upload-URL
\* requests, confirmations and deletions ran on a list, the list has at most
\* MAX_ATTACHMENTS_PER_LIST confirmed attachments and their sizes add up to at
\* most MAX_TOTAL_SIZE_PER_LIST.
C36_AttachmentLimitsHold ==
    \A l \in DOMAIN lists :
        LET confirmed == ConfirmedOf(lists[l].attachments)
        IN  /\ Len(confirmed) <= MAX_ATTACHMENTS_PER_LIST
            /\ SumOfSizes(confirmed) <= MAX_TOTAL_SIZE_PER_LIST

\* ============================================================ claim C37
\* the status of the attachment of list l1 with the given id, "" when the list
\* has no such attachment
StatusOfAttachment(a) ==
    LET found == {i \in 1..Len(lists["l1"].attachments) :
                     lists["l1"].attachments[i].id = a}
    IN  IF found = {} THEN ""
        ELSE lists["l1"].attachments[CHOOSE i \in found : TRUE].status

\* the status the attachment has after the step
StatusOfAttachmentAfter(a) ==
    LET found == {i \in 1..Len(lists'["l1"].attachments) :
                     lists'["l1"].attachments[i].id = a}
    IN  IF found = {} THEN ""
        ELSE lists'["l1"].attachments[CHOOSE i \in found : TRUE].status

AllAttachmentIds == StoredIds \cup (11..(10 + MaxUploads))

\* slot p takes the step of confirm_upload that leaves the given pc
ConfirmLeaves(p, pc) ==
    /\ req[p].op = "confirm_upload"
    /\ req[p].pc = pc
    /\ req'[p].pc # pc

\* the status of an attachment changes in no other way than pending -> confirmed
StatusMovesForward ==
    \A a \in AllAttachmentIds :
        /\ StatusOfAttachment(a) = "confirmed"
              => StatusOfAttachmentAfter(a) \in {"confirmed", ""}
        /\ StatusOfAttachment(a) = "pending"
              => StatusOfAttachmentAfter(a) \in {"pending", "confirmed", ""}
        /\ StatusOfAttachment(a) = ""
              => StatusOfAttachmentAfter(a) \in {"pending", ""}

\* an attachment becomes confirmed by the status update of a confirm request
\* for it, and that request has found the object in storage
ConfirmedByConfirmThatFound ==
    /\ \A a \in AllAttachmentIds :
          StatusOfAttachment(a) # "confirmed" /\ StatusOfAttachmentAfter(a) = "confirmed"
             => \E p \in Slots : /\ ConfirmLeaves(p, "update_status")
                                 /\ req[p].attachment_id = a
    /\ \A p \in Slots :
          /\ req'[p].op = "confirm_upload" /\ req'[p].pc = "update_status"
             /\ req[p].pc # "update_status"
                => /\ req[p].op = "confirm_upload"
                   /\ req[p].pc = "head_object"
                   /\ req[p].attachment_id \in s3_objects
          /\ ConfirmLeaves(p, "head_object") /\ req[p].attachment_id \notin s3_objects
                => req'[p].pc = "remove_attachment"

\* a confirm that did not find the object removes the pending record and
\* answers 400
UnfoundPendingRemoved ==
    \A p \in Slots :
        ConfirmLeaves(p, "remove_attachment")
           => /\ StatusOfAttachment(req[p].attachment_id) \in {"pending", ""}
              /\ StatusOfAttachmentAfter(req[p].attachment_id) = ""
              /\ IsDone(p)' /\ req'[p].status = BadRequest

\* a confirm request for a confirmed attachment is answered at once and writes
\* nothing
ConfirmedAgainChangesNothing ==
    \A p \in Slots :
        (/\ IsIdle(p)
         /\ req'[p].op = "confirm_upload"
         /\ StatusOfAttachment(req'[p].attachment_id) = "confirmed")
           => /\ IsDone(p)'
              /\ UNCHANGED <<lists, s3_objects>>

\* a download URL is given for a confirmed attachment only, and the listing
\* names confirmed attachments only
OnlyConfirmedServed ==
    \A p \in Slots :
        /\ IsIdle(p) /\ req'[p].op = "get_download_url" /\ req'[p].status = OK
              => StatusOfAttachment(req'[p].attachment_id) = "confirmed"
        /\ IsIdle(p) /\ req'[p].op = "list_attachments" /\ req'[p].status = OK
              => \A i \in 1..Len(req'[p].body.attachments) :
                    StatusOfAttachment(req'[p].body.attachments[i]) = "confirmed"

\* C37: an attachment moves only from 'pending' to 'confirmed' and never back;
\* it becomes confirmed only through a confirm request that found the object
\* in storage, a confirm that does not find the object removes the pending
\* record, confirming a confirmed attachment changes nothing, and download URL
\* and listing are given for confirmed attachments only.
C37_PendingToConfirmedOnly ==
    [][/\ StatusMovesForward
       /\ ConfirmedByConfirmThatFound
       /\ UnfoundPendingRemoved
       /\ ConfirmedAgainChangesNothing
       /\ OnlyConfirmedServed]_vars

\* ============================================================ claim C38
\* no two pending invites name the same address and the same household
OnePendingInvitePerPair ==
    \A i, j \in DOMAIN invites :
        /\ invites[i].status = "pending" /\ invites[j].status = "pending"
        /\ invites[i].email = invites[j].email
        /\ invites[i].household_id = invites[j].household_id
        => i = j

\* the user registered under the address is a member of the household
UserOfAddressIsMember(email, h) ==
    \E u \in DOMAIN users :
        /\ Email(u) = email
        /\ h \in DOMAIN households
        /\ InList(u, households[h].members)

\* an invite that enters the table is not for the address of a member
NoInviteCreatedForMember ==
    \A i \in DOMAIN invites' :
        i \notin DOMAIN invites
           => /\ invites'[i].status = "pending"
              /\ ~UserOfAddressIsMember(invites'[i].email, invites'[i].household_id)

\* C38: for every (email, household) pair at most one invite is pending in
\* every reachable state, and no pending invite is created for the address of
\* a user who is a member of the household already, also when two creation
\* requests for the same address and household overlap.
C38_OnePendingInvitePerAddress ==
    []OnePendingInvitePerPair /\ [][NoInviteCreatedForMember]_vars

====
